---- MODULE Spec2Model ----
(***************************************************************************)
(* Model of the product-catalog tools of crawler-nghienbongda.vn:          *)
(*   abc.py                                  CSV -> products.json          *)
(*   update_missing_description_products.py  repair of placeholder texts   *)
(* Product names and description texts are TLA+ strings; the texts the     *)
(* code cuts character by character (Price, Sizes, Colors, Image URLs)     *)
(* are sequences of one-character strings.                                 *)
(***************************************************************************)
EXTENDS Integers, Sequences, FiniteSets, TLC

VARIABLES
    \* ---- get_ollama_description, one call followed attempt by attempt
    gen_module,      \* "abc" or "repair": whose copy of the function runs
    gen_name,        \* product_name
    gen_pc,          \* "request" | "sleeping" | "returned"
    gen_attempt,     \* the loop variable attempt, 0-based
    gen_log,         \* the responses received so far in this call
    gen_slept,       \* the delays waited so far, one entry per time.sleep
    gen_result,      \* the returned pair
    \* ---- create_product_dict, applied to one row
    build_row, build_pc, build_product,
    \* ---- convert_csv_to_json
    csv_rows,        \* product_data.csv as read by csv.DictReader
    conv_pc,         \* "gen" | "build" | "write" | "done" | "raised"
    conv_i,          \* index of the row being processed (1-based)
    conv_pair,       \* (description, short_description) of the current row
    results,         \* the list results
    conv_calls,      \* per row: whether its generation call validated
    \* ---- main / update_product_descriptions, one run after the other
    rep_pc,          \* "probe" | "exists" | "load" | "scan" | "repair" |
                     \* "save" | "report" | "done"
    rep_exit,        \* where the run left: "" while it runs
    run,             \* number of the run, which is also its clock
    products,        \* the loaded list products
    products_to_update,  \* the flagged records, as indices into products
    rep_k,           \* position in products_to_update (1-based)
    success_count,
    failed_products,
    rep_calls,       \* the calls of get_ollama_description in this run:
                     \* per flagged record handled, what the call returned
    probes,          \* the probes of the service in this run and how each
                     \* ended: "ok" | "failed"
    \* ---- files
    catalog_exists,  \* products.json exists
    catalog_file,    \* its content: the records of the JSON document
    catalog_cut,     \* products.json was left cut short by a write that
                     \* raised part-way: it is not a JSON document
    catalog_writes,  \* times this run wrote it
    backup_tries,    \* times this run called shutil.copy
    backups,         \* backup copies made in this run
    report_exists,   \* failed_description_updates.json exists
    report_file,     \* its content: the names of the JSON document
    report_cut,      \* it was left cut short by a write that raised
                     \* part-way: it is not a JSON document
    report_writes,   \* times this run wrote it
    catalog_before,  \* content of products.json when the run began
    cut_before,      \* whether it was cut short when the run began
    report_before,   \* failed_description_updates.json when the run began
    prev             \* what the run before this one did

genVars    == <<gen_module, gen_name, gen_pc, gen_attempt, gen_log, gen_slept,
                gen_result>>
buildVars  == <<build_row, build_pc, build_product>>
convVars   == <<csv_rows, conv_pc, conv_i, conv_pair, results, conv_calls>>
repairVars == <<rep_pc, rep_exit, run, products, products_to_update, rep_k,
                success_count, failed_products, rep_calls, probes>>
fileVars   == <<catalog_exists, catalog_file, catalog_cut, catalog_writes,
                backup_tries, backups, report_exists, report_file,
                report_cut, report_writes, catalog_before, cut_before,
                report_before, prev>>
vars       == <<genVars, buildVars, convVars, repairVars, fileVars>>

(***************************************************************************)
(* Bounds of the model.                                                    *)
(***************************************************************************)
MaxRows    == 2      \* rows of product_data.csv
MaxRecords == 2      \* records of a catalog handed to the repair
MaxRuns    == 2      \* successive runs of the repair program
MaxAxisLen == 2      \* characters of a Sizes / Colors text

Names == {"A", "B"}

(***************************************************************************)
(* Sequence helpers.                                                       *)
(***************************************************************************)
Range(s) == {s[i] : i \in 1..Len(s)}

SeqsUpTo(S, n) == UNION {[1..k -> S] : k \in 0..n}

(***************************************************************************)
(* generate_default_description, once per module.  The templates are the   *)
(* source's, character by character, except for the one letter the parser  *)
(* of this module does not read inside a string: LATIN SMALL LETTER D WITH  *)
(* STROKE (U+0111), the first letter of the word after "hien".  It is       *)
(* written by its code point, as is every such character in this module.   *)
(***************************************************************************)
d_with_stroke == "U+0111"

\* Variant: the template of abc.py has drifted from the repair module's.
generate_default_description_abc_drift(product_name) ==
    << "Khám phá " \o product_name
         \o " - Sản phẩm thể thao chất lượng cao.",
       product_name \o " - Trang phục thể thao chất lượng cao" >>

generate_default_description_abc(product_name) ==
    << "Khám phá " \o product_name
         \o " - Sản phẩm thể thao chất lượng cao với thiết kế hiện "
         \o d_with_stroke \o "ại và thoải mái.",
       product_name \o " - Trang phục thể thao chất lượng cao" >>

generate_default_description(product_name) ==
    << "Khám phá " \o product_name
         \o " - Sản phẩm thể thao chất lượng cao với thiết kế hiện "
         \o d_with_stroke \o "ại và thoải mái.",
       product_name \o " - Trang phục thể thao chất lượng cao" >>

\* Variant: one matching text is enough.
is_default_description_or(description, short_description, product_name) ==
    LET default_desc       == generate_default_description(product_name)[1]
        default_short_desc == generate_default_description(product_name)[2]
    IN  description = default_desc \/ short_description = default_short_desc

is_default_description(description, short_description, product_name) ==
    LET default_desc       == generate_default_description(product_name)[1]
        default_short_desc == generate_default_description(product_name)[2]
    IN  description = default_desc /\ short_description = default_short_desc

DefaultOf(module, product_name) ==
    IF module = "abc" THEN generate_default_description_abc(product_name)
                      ELSE generate_default_description(product_name)

(***************************************************************************)
(* The generation service.  One answer to POST /api/generate:              *)
(*   net    "fault": the request raised (connection error, timeout)        *)
(*   status the HTTP status                                                *)
(*   body   "notjson": response.json() raises; "nofield": a JSON object    *)
(*          without the key response; "field": it has the key              *)
(*   text   the response field: "blank" (empty or white space),            *)
(*          "garbage" (json.loads raises), "json" (it parses to an object) *)
(*   hasD, hasS, d, s  the keys description / short_description of that    *)
(*          object and their values                                        *)
(***************************************************************************)
Response(net, status, body, text, hasD, hasS, d, s) ==
    [net |-> net, status |-> status, body |-> body, text |-> text,
     hasD |-> hasD, hasS |-> hasS, d |-> d, s |-> s]

\* The pairs a well-formed answer may carry: fresh text, text that merely
\* repeats the placeholder, and a mix of the two.
GeneratedPairs(name) ==
    LET def == generate_default_description(name)
    IN  { <<"D1", "S1">>, def, <<def[1], "S1">> }

Responses(name) ==
    { Response("fault", 0, "none", "none", FALSE, FALSE, "", ""),
      Response("ok", 500, "none", "none", FALSE, FALSE, "", ""),
      Response("ok", 200, "notjson", "none", FALSE, FALSE, "", ""),
      Response("ok", 200, "nofield", "none", FALSE, FALSE, "", ""),
      Response("ok", 200, "field", "blank", FALSE, FALSE, "", ""),
      Response("ok", 200, "field", "garbage", FALSE, FALSE, "", ""),
      Response("ok", 200, "field", "json", TRUE, FALSE, "D1", ""),
      Response("ok", 200, "field", "json", FALSE, TRUE, "", "S1") }
    \cup { Response("ok", 200, "field", "json", TRUE, TRUE, p[1], p[2]) :
             p \in GeneratedPairs(name) }

\* A response that passes every check of the client.
Validates(resp) ==
    /\ resp.net = "ok" /\ resp.status = 200 /\ resp.body = "field"
    /\ resp.text = "json" /\ resp.hasD /\ resp.hasS

max_retries == 3
retry_delay == 2

(***************************************************************************)
(* One pass of the loop body of get_ollama_description.  The outcome is    *)
(*   "return"    the function returns pair                                 *)
(*   "sleep"     time.sleep(retry_delay), then the next attempt            *)
(*   "continue"  the next attempt at once (the continue statement)         *)
(***************************************************************************)
Outcome(act, pair) == [act |-> act, pair |-> pair]

\* Variants of AfterFailure: the last failure is raised to the caller; the
\* client gives up one attempt early.
AfterFailure_raises(attempt, default_desc) ==
    IF attempt < max_retries - 1
    THEN Outcome("sleep", default_desc)
    ELSE Outcome("raise", default_desc)

AfterFailure_early(attempt, default_desc) ==
    IF attempt < max_retries - 2
    THEN Outcome("sleep", default_desc)
    ELSE Outcome("return", default_desc)

\* The code after the try statement: retry after a delay, or give up.
AfterFailure(attempt, default_desc) ==
    IF attempt < max_retries - 1
    THEN Outcome("sleep", default_desc)
    ELSE Outcome("return", default_desc)

\* The handler of json.JSONDecodeError.
OnJSONDecodeError(attempt, default_desc) ==
    IF attempt < max_retries - 1
    THEN Outcome("continue", default_desc)
    ELSE Outcome("return", default_desc)

\* abc.py: result['response'] raises KeyError when the key is missing.
attempt_abc(resp, attempt, default_desc) ==
    IF resp.net = "fault" THEN AfterFailure(attempt, default_desc)
    ELSE IF resp.status = 200
    THEN IF resp.body = "notjson" THEN AfterFailure(attempt, default_desc)
         ELSE IF resp.body = "nofield" THEN AfterFailure(attempt, default_desc)
         ELSE IF resp.text = "blank" THEN AfterFailure(attempt, default_desc)
         ELSE IF resp.text = "garbage"
              THEN OnJSONDecodeError(attempt, default_desc)
         ELSE IF ~(resp.hasD /\ resp.hasS)
              THEN AfterFailure(attempt, default_desc)
         ELSE Outcome("return", <<resp.d, resp.s>>)
    ELSE AfterFailure(attempt, default_desc)

\* Variant: any() in place of all(): one of the two keys is enough, the other
\* is filled in by descriptions.get(key, default).
attempt_repair_any_key(resp, attempt, default_desc) ==
    IF resp.net = "fault" THEN AfterFailure(attempt, default_desc)
    ELSE IF resp.status = 200
    THEN IF resp.body = "notjson" THEN AfterFailure(attempt, default_desc)
         ELSE LET response_text ==
                      IF resp.body = "nofield" THEN "blank" ELSE resp.text
              IN  IF response_text = "blank"
                  THEN AfterFailure(attempt, default_desc)
                  ELSE IF response_text = "garbage"
                  THEN OnJSONDecodeError(attempt, default_desc)
                  ELSE IF ~(resp.hasD \/ resp.hasS)
                  THEN AfterFailure(attempt, default_desc)
                  ELSE Outcome("return",
                               <<IF resp.hasD THEN resp.d ELSE default_desc[1],
                                 IF resp.hasS THEN resp.s ELSE default_desc[2]>>)
    ELSE AfterFailure(attempt, default_desc)

\* The repair module: result.get('response', '').strip() turns a missing
\* key into the empty text, which is then refused as an empty response.
attempt_repair(resp, attempt, default_desc) ==
    IF resp.net = "fault" THEN AfterFailure(attempt, default_desc)
    ELSE IF resp.status = 200
    THEN IF resp.body = "notjson" THEN AfterFailure(attempt, default_desc)
         ELSE LET response_text ==
                      IF resp.body = "nofield" THEN "blank" ELSE resp.text
              IN  IF response_text = "blank"
                  THEN AfterFailure(attempt, default_desc)
                  ELSE IF response_text = "garbage"
                  THEN OnJSONDecodeError(attempt, default_desc)
                  ELSE IF ~(resp.hasD /\ resp.hasS)
                  THEN AfterFailure(attempt, default_desc)
                  ELSE Outcome("return", <<resp.d, resp.s>>)
    ELSE AfterFailure(attempt, default_desc)

AttemptOf(module, resp, attempt, default_desc) ==
    IF module = "abc" THEN attempt_abc(resp, attempt, default_desc)
                      ELSE attempt_repair(resp, attempt, default_desc)

(***************************************************************************)
(* get_ollama_description as a whole, for the callers: resps[a] is what    *)
(* the service would answer to attempt a (0-based, resps[a + 1]).          *)
(* The result carries the pair, the requests issued and the delays waited. *)
(***************************************************************************)
RECURSIVE GenLoop(_, _, _, _, _, _)
GenLoop(module, default_desc, resps, attempt, requests, slept) ==
    IF attempt >= max_retries
    THEN [pair |-> default_desc, requests |-> requests, slept |-> slept,
          validated |-> FALSE]
    ELSE LET resp == resps[attempt + 1]
             o    == AttemptOf(module, resp, attempt, default_desc)
         IN  IF o.act = "return"
             THEN [pair |-> o.pair, requests |-> requests + 1,
                   slept |-> slept, validated |-> Validates(resp)]
             ELSE GenLoop(module, default_desc, resps, attempt + 1,
                          requests + 1,
                          IF o.act = "sleep" THEN Append(slept, retry_delay)
                                             ELSE slept)

get_ollama_description(module, product_name, resps) ==
    GenLoop(module, DefaultOf(module, product_name), resps, 0, 0, <<>>)

ServiceAnswers(name) == [1..max_retries -> Responses(name)]

\* Every way one call can end, over all the service may answer.
CallTable ==
    [module \in {"abc", "repair"}, name \in Names |->
       { get_ollama_description(module, name, resps) :
           resps \in ServiceAnswers(name) }]

(***************************************************************************)
(* Rest states of the parts a specification does not exercise.             *)
(***************************************************************************)
NoPair == <<"", "">>

GenIdle ==
    /\ gen_module = "none" /\ gen_name = "" /\ gen_pc = "idle"
    /\ gen_attempt = 0 /\ gen_log = <<>> /\ gen_slept = <<>>
    /\ gen_result = NoPair

(***************************************************************************)
(* SpecGen: one call of get_ollama_description, attempt by attempt.        *)
(***************************************************************************)
InitGenCall ==
    /\ gen_module \in {"abc", "repair"}
    /\ gen_name \in Names
    /\ gen_pc = "request"
    /\ gen_attempt = 0
    /\ gen_log = <<>>
    /\ gen_slept = <<>>
    /\ gen_result = NoPair

\* requests.post and everything the loop body does with its answer.
GenRequest ==
    /\ gen_pc = "request"
    /\ gen_attempt < max_retries
    /\ \E resp \in Responses(gen_name) :
         LET o == AttemptOf(gen_module, resp, gen_attempt,
                            DefaultOf(gen_module, gen_name))
         IN  /\ gen_log' = Append(gen_log, resp)
             /\ CASE o.act = "return" ->
                       /\ gen_pc' = "returned"
                       /\ gen_result' = o.pair
                       /\ UNCHANGED gen_attempt
                  [] o.act = "sleep" ->
                       /\ gen_pc' = "sleeping"
                       /\ UNCHANGED <<gen_attempt, gen_result>>
                  [] o.act = "continue" ->
                       /\ gen_pc' = "request"
                       /\ gen_attempt' = gen_attempt + 1
                       /\ UNCHANGED gen_result
                  [] OTHER ->
                       /\ gen_pc' = "raised"
                       /\ UNCHANGED <<gen_attempt, gen_result>>
    /\ UNCHANGED <<gen_module, gen_name, gen_slept>>

\* time.sleep(retry_delay) returns and the loop goes on.
GenSleep ==
    /\ gen_pc = "sleeping"
    /\ gen_slept' = Append(gen_slept, retry_delay)
    /\ gen_attempt' = gen_attempt + 1
    /\ gen_pc' = "request"
    /\ UNCHANGED <<gen_module, gen_name, gen_log, gen_result>>

NoneValidated == \A i \in 1..Len(gen_log) : ~Validates(gen_log[i])

\* C1: whatever the service answers over the attempts, the call never
\* raises, it can always go on until it returns, and it returns a pair; when
\* no attempt brought a response that validates, the pair is exactly
\* generate_default_description(name).
C1_NeverRaisesFallsBack ==
    /\ gen_pc \in {"request", "sleeping", "returned"}
    /\ gen_pc = "request" => gen_attempt < max_retries
    /\ Len(gen_log) + Len(gen_slept) <= 2 * max_retries
    /\ gen_pc = "returned" =>
          /\ Len(gen_result) = 2
          /\ NoneValidated => gen_result = DefaultOf(gen_module, gen_name)

C1_Witness ==
    /\ gen_pc = "returned"
    /\ Len(gen_log) = 3
    /\ gen_log[1].net = "fault"
    /\ gen_log[2].text = "garbage"
    /\ gen_log[3].body = "nofield"
    /\ gen_result = DefaultOf(gen_module, gen_name)

\* C2: one call issues at most 3 requests; the first response that validates
\* is the last request of the call and its pair is what the call returns;
\* when every attempt fails the call issues exactly 3 requests and returns
\* the placeholder pair.
C2_AtMostThreeRequests ==
    /\ Len(gen_log) <= 3
    /\ \A i \in 1..Len(gen_log) :
          Validates(gen_log[i]) =>
             /\ i = Len(gen_log)
             /\ gen_pc = "returned"
             /\ gen_result = <<gen_log[i].d, gen_log[i].s>>
    /\ (gen_pc = "returned" /\ NoneValidated) =>
          /\ Len(gen_log) = 3
          /\ gen_result = DefaultOf(gen_module, gen_name)

C2_Witness ==
    /\ gen_pc = "returned"
    /\ Len(gen_log) = 3
    /\ \A i \in 1..3 : gen_log[i].net = "ok" /\ gen_log[i].status = 500
    /\ gen_result = DefaultOf(gen_module, gen_name)

(***************************************************************************)
(* Texts cut character by character: str.strip, str.replace(c, ''),        *)
(* str.split(',') and float().                                             *)
(***************************************************************************)
Absent == <<"absent">>       \* the column is not in the row

\* The characters str.strip() removes (str.isspace).  A character that is
\* not printable ASCII and has no escape in a TLA+ string is written by its
\* code point: "U+00A0" is the one character NO-BREAK SPACE.
WhiteSpace ==
    { "\t", "\n", "U+000B", "\f", "\r", "U+001C", "U+001D", "U+001E",
      "U+001F", " ", "U+0085", "U+00A0", "U+1680", "U+2000", "U+2001",
      "U+2002", "U+2003", "U+2004", "U+2005", "U+2006", "U+2007", "U+2008",
      "U+2009", "U+200A", "U+2028", "U+2029", "U+202F", "U+205F", "U+3000" }

IsSpace(c) == c \in WhiteSpace

RECURSIVE lstrip(_)
lstrip(s) == IF s # <<>> /\ IsSpace(Head(s)) THEN lstrip(Tail(s)) ELSE s

RECURSIVE rstrip(_)
rstrip(s) ==
    IF s # <<>> /\ IsSpace(s[Len(s)]) THEN rstrip(SubSeq(s, 1, Len(s) - 1))
    ELSE s

strip(s) == rstrip(lstrip(s))

remove(s, ch) == SelectSeq(s, LAMBDA c : c # ch)

RECURSIVE split(_, _)
split(s, sep) ==
    IF \E i \in 1..Len(s) : s[i] = sep
    THEN LET i == CHOOSE j \in 1..Len(s) :
                      /\ s[j] = sep
                      /\ \A k \in 1..(j - 1) : s[k] # sep
         IN  <<SubSeq(s, 1, i - 1)>> \o split(SubSeq(s, i + 1, Len(s)), sep)
    ELSE <<s>>

(***************************************************************************)
(* float(text).  The decimal digits float() reads are the characters of    *)
(* Unicode category Nd: each run below holds the digits 0 to 9 of one      *)
(* script, in order (Unicode 14, the table of Python 3.11).                *)
(***************************************************************************)
DigitRuns ==
    << <<"0", "1", "2", "3", "4", "5", "6", "7", "8", "9">>,
       <<"U+0660", "U+0661", "U+0662", "U+0663", "U+0664",
         "U+0665", "U+0666", "U+0667", "U+0668", "U+0669">>,
       <<"U+06F0", "U+06F1", "U+06F2", "U+06F3", "U+06F4",
         "U+06F5", "U+06F6", "U+06F7", "U+06F8", "U+06F9">>,
       <<"U+07C0", "U+07C1", "U+07C2", "U+07C3", "U+07C4",
         "U+07C5", "U+07C6", "U+07C7", "U+07C8", "U+07C9">>,
       <<"U+0966", "U+0967", "U+0968", "U+0969", "U+096A",
         "U+096B", "U+096C", "U+096D", "U+096E", "U+096F">>,
       <<"U+09E6", "U+09E7", "U+09E8", "U+09E9", "U+09EA",
         "U+09EB", "U+09EC", "U+09ED", "U+09EE", "U+09EF">>,
       <<"U+0A66", "U+0A67", "U+0A68", "U+0A69", "U+0A6A",
         "U+0A6B", "U+0A6C", "U+0A6D", "U+0A6E", "U+0A6F">>,
       <<"U+0AE6", "U+0AE7", "U+0AE8", "U+0AE9", "U+0AEA",
         "U+0AEB", "U+0AEC", "U+0AED", "U+0AEE", "U+0AEF">>,
       <<"U+0B66", "U+0B67", "U+0B68", "U+0B69", "U+0B6A",
         "U+0B6B", "U+0B6C", "U+0B6D", "U+0B6E", "U+0B6F">>,
       <<"U+0BE6", "U+0BE7", "U+0BE8", "U+0BE9", "U+0BEA",
         "U+0BEB", "U+0BEC", "U+0BED", "U+0BEE", "U+0BEF">>,
       <<"U+0C66", "U+0C67", "U+0C68", "U+0C69", "U+0C6A",
         "U+0C6B", "U+0C6C", "U+0C6D", "U+0C6E", "U+0C6F">>,
       <<"U+0CE6", "U+0CE7", "U+0CE8", "U+0CE9", "U+0CEA",
         "U+0CEB", "U+0CEC", "U+0CED", "U+0CEE", "U+0CEF">>,
       <<"U+0D66", "U+0D67", "U+0D68", "U+0D69", "U+0D6A",
         "U+0D6B", "U+0D6C", "U+0D6D", "U+0D6E", "U+0D6F">>,
       <<"U+0DE6", "U+0DE7", "U+0DE8", "U+0DE9", "U+0DEA",
         "U+0DEB", "U+0DEC", "U+0DED", "U+0DEE", "U+0DEF">>,
       <<"U+0E50", "U+0E51", "U+0E52", "U+0E53", "U+0E54",
         "U+0E55", "U+0E56", "U+0E57", "U+0E58", "U+0E59">>,
       <<"U+0ED0", "U+0ED1", "U+0ED2", "U+0ED3", "U+0ED4",
         "U+0ED5", "U+0ED6", "U+0ED7", "U+0ED8", "U+0ED9">>,
       <<"U+0F20", "U+0F21", "U+0F22", "U+0F23", "U+0F24",
         "U+0F25", "U+0F26", "U+0F27", "U+0F28", "U+0F29">>,
       <<"U+1040", "U+1041", "U+1042", "U+1043", "U+1044",
         "U+1045", "U+1046", "U+1047", "U+1048", "U+1049">>,
       <<"U+1090", "U+1091", "U+1092", "U+1093", "U+1094",
         "U+1095", "U+1096", "U+1097", "U+1098", "U+1099">>,
       <<"U+17E0", "U+17E1", "U+17E2", "U+17E3", "U+17E4",
         "U+17E5", "U+17E6", "U+17E7", "U+17E8", "U+17E9">>,
       <<"U+1810", "U+1811", "U+1812", "U+1813", "U+1814",
         "U+1815", "U+1816", "U+1817", "U+1818", "U+1819">>,
       <<"U+1946", "U+1947", "U+1948", "U+1949", "U+194A",
         "U+194B", "U+194C", "U+194D", "U+194E", "U+194F">>,
       <<"U+19D0", "U+19D1", "U+19D2", "U+19D3", "U+19D4",
         "U+19D5", "U+19D6", "U+19D7", "U+19D8", "U+19D9">>,
       <<"U+1A80", "U+1A81", "U+1A82", "U+1A83", "U+1A84",
         "U+1A85", "U+1A86", "U+1A87", "U+1A88", "U+1A89">>,
       <<"U+1A90", "U+1A91", "U+1A92", "U+1A93", "U+1A94",
         "U+1A95", "U+1A96", "U+1A97", "U+1A98", "U+1A99">>,
       <<"U+1B50", "U+1B51", "U+1B52", "U+1B53", "U+1B54",
         "U+1B55", "U+1B56", "U+1B57", "U+1B58", "U+1B59">>,
       <<"U+1BB0", "U+1BB1", "U+1BB2", "U+1BB3", "U+1BB4",
         "U+1BB5", "U+1BB6", "U+1BB7", "U+1BB8", "U+1BB9">>,
       <<"U+1C40", "U+1C41", "U+1C42", "U+1C43", "U+1C44",
         "U+1C45", "U+1C46", "U+1C47", "U+1C48", "U+1C49">>,
       <<"U+1C50", "U+1C51", "U+1C52", "U+1C53", "U+1C54",
         "U+1C55", "U+1C56", "U+1C57", "U+1C58", "U+1C59">>,
       <<"U+A620", "U+A621", "U+A622", "U+A623", "U+A624",
         "U+A625", "U+A626", "U+A627", "U+A628", "U+A629">>,
       <<"U+A8D0", "U+A8D1", "U+A8D2", "U+A8D3", "U+A8D4",
         "U+A8D5", "U+A8D6", "U+A8D7", "U+A8D8", "U+A8D9">>,
       <<"U+A900", "U+A901", "U+A902", "U+A903", "U+A904",
         "U+A905", "U+A906", "U+A907", "U+A908", "U+A909">>,
       <<"U+A9D0", "U+A9D1", "U+A9D2", "U+A9D3", "U+A9D4",
         "U+A9D5", "U+A9D6", "U+A9D7", "U+A9D8", "U+A9D9">>,
       <<"U+A9F0", "U+A9F1", "U+A9F2", "U+A9F3", "U+A9F4",
         "U+A9F5", "U+A9F6", "U+A9F7", "U+A9F8", "U+A9F9">>,
       <<"U+AA50", "U+AA51", "U+AA52", "U+AA53", "U+AA54",
         "U+AA55", "U+AA56", "U+AA57", "U+AA58", "U+AA59">>,
       <<"U+ABF0", "U+ABF1", "U+ABF2", "U+ABF3", "U+ABF4",
         "U+ABF5", "U+ABF6", "U+ABF7", "U+ABF8", "U+ABF9">>,
       <<"U+FF10", "U+FF11", "U+FF12", "U+FF13", "U+FF14",
         "U+FF15", "U+FF16", "U+FF17", "U+FF18", "U+FF19">>,
       <<"U+104A0", "U+104A1", "U+104A2", "U+104A3", "U+104A4",
         "U+104A5", "U+104A6", "U+104A7", "U+104A8", "U+104A9">>,
       <<"U+10D30", "U+10D31", "U+10D32", "U+10D33", "U+10D34",
         "U+10D35", "U+10D36", "U+10D37", "U+10D38", "U+10D39">>,
       <<"U+11066", "U+11067", "U+11068", "U+11069", "U+1106A",
         "U+1106B", "U+1106C", "U+1106D", "U+1106E", "U+1106F">>,
       <<"U+110F0", "U+110F1", "U+110F2", "U+110F3", "U+110F4",
         "U+110F5", "U+110F6", "U+110F7", "U+110F8", "U+110F9">>,
       <<"U+11136", "U+11137", "U+11138", "U+11139", "U+1113A",
         "U+1113B", "U+1113C", "U+1113D", "U+1113E", "U+1113F">>,
       <<"U+111D0", "U+111D1", "U+111D2", "U+111D3", "U+111D4",
         "U+111D5", "U+111D6", "U+111D7", "U+111D8", "U+111D9">>,
       <<"U+112F0", "U+112F1", "U+112F2", "U+112F3", "U+112F4",
         "U+112F5", "U+112F6", "U+112F7", "U+112F8", "U+112F9">>,
       <<"U+11450", "U+11451", "U+11452", "U+11453", "U+11454",
         "U+11455", "U+11456", "U+11457", "U+11458", "U+11459">>,
       <<"U+114D0", "U+114D1", "U+114D2", "U+114D3", "U+114D4",
         "U+114D5", "U+114D6", "U+114D7", "U+114D8", "U+114D9">>,
       <<"U+11650", "U+11651", "U+11652", "U+11653", "U+11654",
         "U+11655", "U+11656", "U+11657", "U+11658", "U+11659">>,
       <<"U+116C0", "U+116C1", "U+116C2", "U+116C3", "U+116C4",
         "U+116C5", "U+116C6", "U+116C7", "U+116C8", "U+116C9">>,
       <<"U+11730", "U+11731", "U+11732", "U+11733", "U+11734",
         "U+11735", "U+11736", "U+11737", "U+11738", "U+11739">>,
       <<"U+118E0", "U+118E1", "U+118E2", "U+118E3", "U+118E4",
         "U+118E5", "U+118E6", "U+118E7", "U+118E8", "U+118E9">>,
       <<"U+11950", "U+11951", "U+11952", "U+11953", "U+11954",
         "U+11955", "U+11956", "U+11957", "U+11958", "U+11959">>,
       <<"U+11C50", "U+11C51", "U+11C52", "U+11C53", "U+11C54",
         "U+11C55", "U+11C56", "U+11C57", "U+11C58", "U+11C59">>,
       <<"U+11D50", "U+11D51", "U+11D52", "U+11D53", "U+11D54",
         "U+11D55", "U+11D56", "U+11D57", "U+11D58", "U+11D59">>,
       <<"U+11DA0", "U+11DA1", "U+11DA2", "U+11DA3", "U+11DA4",
         "U+11DA5", "U+11DA6", "U+11DA7", "U+11DA8", "U+11DA9">>,
       <<"U+16A60", "U+16A61", "U+16A62", "U+16A63", "U+16A64",
         "U+16A65", "U+16A66", "U+16A67", "U+16A68", "U+16A69">>,
       <<"U+16AC0", "U+16AC1", "U+16AC2", "U+16AC3", "U+16AC4",
         "U+16AC5", "U+16AC6", "U+16AC7", "U+16AC8", "U+16AC9">>,
       <<"U+16B50", "U+16B51", "U+16B52", "U+16B53", "U+16B54",
         "U+16B55", "U+16B56", "U+16B57", "U+16B58", "U+16B59">>,
       <<"U+1D7CE", "U+1D7CF", "U+1D7D0", "U+1D7D1", "U+1D7D2",
         "U+1D7D3", "U+1D7D4", "U+1D7D5", "U+1D7D6", "U+1D7D7">>,
       <<"U+1D7D8", "U+1D7D9", "U+1D7DA", "U+1D7DB", "U+1D7DC",
         "U+1D7DD", "U+1D7DE", "U+1D7DF", "U+1D7E0", "U+1D7E1">>,
       <<"U+1D7E2", "U+1D7E3", "U+1D7E4", "U+1D7E5", "U+1D7E6",
         "U+1D7E7", "U+1D7E8", "U+1D7E9", "U+1D7EA", "U+1D7EB">>,
       <<"U+1D7EC", "U+1D7ED", "U+1D7EE", "U+1D7EF", "U+1D7F0",
         "U+1D7F1", "U+1D7F2", "U+1D7F3", "U+1D7F4", "U+1D7F5">>,
       <<"U+1D7F6", "U+1D7F7", "U+1D7F8", "U+1D7F9", "U+1D7FA",
         "U+1D7FB", "U+1D7FC", "U+1D7FD", "U+1D7FE", "U+1D7FF">>,
       <<"U+1E140", "U+1E141", "U+1E142", "U+1E143", "U+1E144",
         "U+1E145", "U+1E146", "U+1E147", "U+1E148", "U+1E149">>,
       <<"U+1E2F0", "U+1E2F1", "U+1E2F2", "U+1E2F3", "U+1E2F4",
         "U+1E2F5", "U+1E2F6", "U+1E2F7", "U+1E2F8", "U+1E2F9">>,
       <<"U+1E950", "U+1E951", "U+1E952", "U+1E953", "U+1E954",
         "U+1E955", "U+1E956", "U+1E957", "U+1E958", "U+1E959">>,
       <<"U+1FBF0", "U+1FBF1", "U+1FBF2", "U+1FBF3", "U+1FBF4",
         "U+1FBF5", "U+1FBF6", "U+1FBF7", "U+1FBF8", "U+1FBF9">> >>

Digits == UNION { Range(DigitRuns[r]) : r \in 1..Len(DigitRuns) }

DigitVal(c) ==
    CHOOSE v \in 0..9 : \E r \in 1..Len(DigitRuns) : DigitRuns[r][v + 1] = c

\* The index of the first character of s that is in S, 0 when there is none.
FirstIndex(s, S) ==
    IF \E i \in 1..Len(s) : s[i] \in S
    THEN CHOOSE i \in 1..Len(s) :
             s[i] \in S /\ \A k \in 1..(i - 1) : s[k] \notin S
    ELSE 0

\* str.lower() on the letters of "infinity" and "nan".
LowerOf(c) ==
    CASE c = "I" -> "i" [] c = "N" -> "n" [] c = "F" -> "f" [] c = "T" -> "t"
      [] c = "Y" -> "y" [] c = "A" -> "a" [] OTHER -> c

lower(s) == [i \in 1..Len(s) |-> LowerOf(s[i])]

\* A group of digits: digits, with single underscores between two digits.
DigitGroup(g) ==
    /\ g # <<>>
    /\ \A i \in 1..Len(g) : g[i] \in Digits \/ g[i] = "_"
    /\ g[1] # "_" /\ g[Len(g)] # "_"
    /\ \A i \in 1..(Len(g) - 1) : ~(g[i] = "_" /\ g[i + 1] = "_")

\* The decimal digits a group writes, underscores left out.
DigitsOf(g) ==
    LET h == remove(g, "_") IN [i \in 1..Len(h) |-> DigitVal(h[i])]

\* The digits of d from its first one that is not 0.
DropLeadingZeros(d) ==
    IF \A i \in 1..Len(d) : d[i] = 0 THEN <<>>
    ELSE SubSeq(d, FirstIndex(d, 1..9), Len(d))

\* The digits of d up to its last one that is not 0.
DropTrailingZeros(d) ==
    IF \A i \in 1..Len(d) : d[i] = 0 THEN <<>>
    ELSE SubSeq(d, 1, CHOOSE i \in 1..Len(d) :
                          d[i] # 0 /\ \A k \in (i + 1)..Len(d) : d[k] = 0)

\* The number the digits d write.
RECURSIVE ExponentValue(_)
ExponentValue(d) ==
    IF d = <<>> THEN 0
    ELSE 10 * ExponentValue(SubSeq(d, 1, Len(d) - 1)) + d[Len(d)]

\* The digits that write the natural number n, none for 0.
RECURSIVE NatDigits(_)
NatDigits(n) == IF n = 0 THEN <<>> ELSE NatDigits(n \div 10) \o <<n % 10>>

\* d writes a greater number than e, both without leading zeros.
DigitsGreater(d, e) ==
    \/ Len(d) > Len(e)
    \/ /\ Len(d) = Len(e)
       /\ \E i \in 1..Len(d) :
              d[i] > e[i] /\ \A k \in 1..(i - 1) : d[k] = e[k]

\* The exponent written by the digits x (no leading zeros) and its sign is
\* above, or below, the integer k.  The digits are compared as written: an
\* exponent of any length is decided without being computed.
ExponentAbove(neg, x, k) ==
    IF neg THEN k < 0 /\ DigitsGreater(NatDigits(-k), x)
    ELSE k < 0 \/ DigitsGreater(x, NatDigits(k))

ExponentBelow(neg, x, k) ==
    IF neg THEN k > 0 \/ DigitsGreater(x, NatDigits(-k))
    ELSE k > 0 /\ DigitsGreater(NatDigits(k), x)

\* The white space float() skips around a number: that of str.strip() but
\* for the separators U+001C to U+001F, which float() rejects.
FloatSpace == WhiteSpace \ {"U+001C", "U+001D", "U+001E", "U+001F"}

\* s without the white space float() skips at its two ends.
FloatStrip(s) ==
    IF \A i \in 1..Len(s) : s[i] \in FloatSpace THEN <<>>
    ELSE SubSeq(s, CHOOSE i \in 1..Len(s) :
                       /\ s[i] \notin FloatSpace
                       /\ \A k \in 1..(i - 1) : s[k] \in FloatSpace,
                CHOOSE j \in 1..Len(s) :
                       /\ s[j] \notin FloatSpace
                       /\ \A k \in (j + 1)..Len(s) : s[k] \in FloatSpace)

\* The parts float() reads in a text: white space around it dropped, then
\* [sign] (inf | infinity | nan | [digits][.[digits]][(e|E)[sign]digits]).
FloatParts(s) ==
    LET t     == FloatStrip(s)
        neg   == t # <<>> /\ t[1] = "-"
        u     == IF t # <<>> /\ t[1] \in {"+", "-"} THEN Tail(t) ELSE t
        e     == FirstIndex(u, {"e", "E"})
        m     == IF e = 0 THEN u ELSE SubSeq(u, 1, e - 1)
        x     == IF e = 0 THEN <<>> ELSE SubSeq(u, e + 1, Len(u))
        p     == FirstIndex(m, {"."})
    IN  [negative |-> neg,
         word     |-> lower(u),
         whole    |-> IF p = 0 THEN m ELSE SubSeq(m, 1, p - 1),
         fraction |-> IF p = 0 THEN <<>> ELSE SubSeq(m, p + 1, Len(m)),
         has_exp  |-> e # 0,
         exp_neg  |-> x # <<>> /\ x[1] = "-",
         exp      |-> IF x # <<>> /\ x[1] \in {"+", "-"} THEN Tail(x) ELSE x]

Infinity == { <<"i", "n", "f">>, <<"i", "n", "f", "i", "n", "i", "t", "y">> }

NaN == <<"n", "a", "n">>

\* float(s) returns (does not raise ValueError).
FloatParses(s) ==
    LET P == FloatParts(s)
    IN  \/ P.word \in Infinity \cup {NaN}
        \/ /\ P.whole = <<>> \/ DigitGroup(P.whole)
           /\ P.fraction = <<>> \/ DigitGroup(P.fraction)
           /\ P.whole # <<>> \/ P.fraction # <<>>
           /\ P.has_exp => DigitGroup(P.exp)

(***************************************************************************)
(* The double float() returns is the one nearest to the number written,    *)
(* a tie going to the even significand, and json.dump writes a double with *)
(* the digits of repr(): the fewest that read back as the same double.     *)
(* Both need numbers of hundreds of digits.  Such a number is the sequence *)
(* of its limbs in base 10^8, lowest first, without high zero limbs; 0 is  *)
(* <<>>.                                                                   *)
(***************************************************************************)
Base == 100000000

LimbAt(a, i) == IF i <= Len(a) THEN a[i] ELSE 0

\* a without its high zero limbs.
Trim(a) ==
    SubSeq(a, 1, CHOOSE n \in 0..Len(a) :
                     /\ n = 0 \/ a[n] # 0
                     /\ \A k \in (n + 1)..Len(a) : a[k] = 0)

\* The number written by the digits lo to hi of d, at most 8 of them.
RECURSIVE DigitsValue(_, _, _)
DigitsValue(d, lo, hi) ==
    IF lo > hi THEN 0 ELSE 10 * DigitsValue(d, lo, hi - 1) + d[hi]

\* The number written by the digits d.
Limbs(d) ==
    Trim([i \in 1..((Len(d) + 7) \div 8) |->
             DigitsValue(d, IF Len(d) - 8 * i + 1 > 1
                            THEN Len(d) - 8 * i + 1 ELSE 1,
                         Len(d) - 8 * (i - 1))])

Longest(a, b) == IF Len(a) > Len(b) THEN Len(a) ELSE Len(b)

\* -1, 0 or 1 as a is below, equal to or above b: by the highest limb in
\* which they differ.
Highest(a, b) ==
    CHOOSE i \in 1..Longest(a, b) :
        /\ LimbAt(a, i) # LimbAt(b, i)
        /\ \A k \in (i + 1)..Longest(a, b) : LimbAt(a, k) = LimbAt(b, k)

Compare(a, b) ==
    IF \A i \in 1..Longest(a, b) : LimbAt(a, i) = LimbAt(b, i) THEN 0
    ELSE IF LimbAt(a, Highest(a, b)) > LimbAt(b, Highest(a, b)) THEN 1
    ELSE -1

\* What the limbs below i carry into limb i of a + b: 1 when some limb
\* overflows and every limb between is full.
Carry(a, b, i) ==
    IF \E j \in 1..(i - 1) :
           /\ LimbAt(a, j) + LimbAt(b, j) >= Base
           /\ \A k \in (j + 1)..(i - 1) :
                  LimbAt(a, k) + LimbAt(b, k) = Base - 1
    THEN 1 ELSE 0

Plus(a, b) ==
    Trim([i \in 1..(Longest(a, b) + 1) |->
             (LimbAt(a, i) + LimbAt(b, i) + Carry(a, b, i)) % Base])

\* What limb i of a - b lends to the limbs below it: 1 when some limb of a
\* is below that of b and every limb between is equal.
Borrow(a, b, i) ==
    IF \E j \in 1..(i - 1) :
           /\ LimbAt(a, j) < LimbAt(b, j)
           /\ \A k \in (j + 1)..(i - 1) : LimbAt(a, k) = LimbAt(b, k)
    THEN 1 ELSE 0

\* a - b, for a >= b
Minus(a, b) ==
    Trim([i \in 1..Len(a) |->
             (a[i] - LimbAt(b, i) - Borrow(a, b, i) + Base) % Base])

\* m * a for a factor m of the base: what a limb carries up is then
\* (m * limb) \div Base, whatever is carried into it.
Times(a, m) ==
    Trim([i \in 1..(Len(a) + 1) |->
             ((m * LimbAt(a, i)) % Base)
               + (IF i > 1 THEN (m * a[i - 1]) \div Base ELSE 0)])

\* a * 2^k, by halves of k down to 2^4 = 16, a factor of the base.
RECURSIVE TimesPow2(_, _)
TimesPow2(a, k) ==
    IF a = <<>> THEN <<>>
    ELSE IF k <= 4 THEN Times(a, 2^k)
    ELSE TimesPow2(TimesPow2(a, k \div 2), k - (k \div 2))

RECURSIVE TimesTen(_, _)
TimesTen(a, k) == IF k = 0 THEN a ELSE Times(TimesTen(a, k - 1), 10)

\* a * 10^k: k \div 8 zero limbs below, and k % 8 times ten.
TimesPow10(a, k) ==
    IF a = <<>> THEN <<>>
    ELSE [i \in 1..(k \div 8) |-> 0] \o TimesTen(a, k % 8)

Odd(a) == a # <<>> /\ a[1] % 2 = 1

TwoTo52 == TimesPow2(<<1>>, 52)

TwoTo53 == TimesPow2(<<1>>, 53)

\* 2^p <= a / b
AtLeastPow2(a, b, p) ==
    IF p >= 0 THEN Compare(TimesPow2(b, p), a) <= 0
    ELSE Compare(b, TimesPow2(a, -p)) <= 0

\* The p with 2^p <= a / b < 2^(p+1), for 10^top <= a / b < 10^(top+1):
\* p lies between top * log2(10) and (top + 1) * log2(10).
BinaryExponent(a, b, top) ==
    CHOOSE p \in ((top * 3321928) \div 1000000 - 1)
                   ..(((top + 1) * 3321929) \div 1000000 + 1) :
        AtLeastPow2(a, b, p) /\ ~AtLeastPow2(a, b, p + 1)

\* The exponent q of the double nearest to a / b, a significand of 53 bits
\* times 2^q: 52 below the binary exponent, and -1074 for a subnormal.
BinaryScale(a, b, top) ==
    LET p == BinaryExponent(a, b, top)
    IN  IF p - 52 > -1074 THEN p - 52 ELSE -1074

\* Long division of x by t, x being below 2t: the first n binary digits of
\* x / t, and what is left of x, doubled at each digit.  The digits are
\* found by halves: those of Q, then n more on what Q left.
RECURSIVE Quotient(_, _, _)
Joined(bits, Q, n) ==
    IF Q.bits = <<>> THEN [bits |-> TimesPow2(bits, n), rest |-> Q.rest]
    ELSE [bits |-> Plus(TimesPow2(bits, n), Q.bits), rest |-> Q.rest]

Further(Q, t, n) ==
    IF Q.rest = <<>> THEN [bits |-> TimesPow2(Q.bits, n), rest |-> <<>>]
    ELSE Joined(Q.bits, Quotient(Q.rest, t, n), n)

Quotient(x, t, n) ==
    IF n > 1 THEN Further(Quotient(x, t, n \div 2), t, n - (n \div 2))
    ELSE IF Compare(x, t) >= 0
    THEN [bits |-> <<1>>, rest |-> Times(Minus(x, t), 2)]
    ELSE [bits |-> <<>>, rest |-> Times(x, 2)]

\* The quotient rounded to the nearest integer, half to the even one.
RoundHalfEven(Q, t) ==
    IF \/ Compare(Q.rest, t) > 0
       \/ Compare(Q.rest, t) = 0 /\ Odd(Q.bits)
    THEN Plus(Q.bits, <<1>>)
    ELSE Q.bits

\* x / t, below 2, in units of 2^-52 and rounded to an integer.
Divide(x, t) == RoundHalfEven(Quotient(x, t, 53), t)

\* a / (b * 2^q) rounded to an integer; at most 2^53 for the q above.
Significand(a, b, q) ==
    IF q < 0 THEN Divide(TimesPow2(a, -q), TimesPow2(b, 52))
    ELSE Divide(a, TimesPow2(b, q + 52))

\* The double nearest to a / b, as m * 2^q with m below 2^53.  m is 0 for a
\* quotient that rounds to 0.0, and q is above 971 for one that rounds to
\* inf.
Nearest(m, q) ==
    IF m = TwoTo53 THEN [m |-> TwoTo52, q |-> q + 1] ELSE [m |-> m, q |-> q]

NearestAt(a, b, q) == Nearest(Significand(a, b, q), q)

NearestDouble(a, b, top) == NearestAt(a, b, BinaryScale(a, b, top))

\* The digits of repr() for the double m * 2^q.  The doubles next to it are
\* one unit of the last place away, the lower one half a unit when m is
\* 2^52 (Narrow); a text reads back as this double when it is within half
\* that distance, the two ends included when m is even.  r / s is the
\* double, mp / s and mm / s the halves of the distances above and below.
Narrow(m, q) == m = TwoTo52 /\ q > -1074

Vicinity(m, q) ==
    IF q >= 0
    THEN [r  |-> Times(TimesPow2(m, q), IF Narrow(m, q) THEN 4 ELSE 2),
          s  |-> <<IF Narrow(m, q) THEN 4 ELSE 2>>,
          mp |-> TimesPow2(<<IF Narrow(m, q) THEN 2 ELSE 1>>, q),
          mm |-> TimesPow2(<<1>>, q)]
    ELSE [r  |-> Times(m, IF Narrow(m, q) THEN 4 ELSE 2),
          s  |-> Times(TimesPow2(<<1>>, -q), IF Narrow(m, q) THEN 4 ELSE 2),
          mp |-> <<IF Narrow(m, q) THEN 2 ELSE 1>>,
          mm |-> <<1>>]

\* The same over 10^k.
Scaled(V, k) ==
    IF k >= 0
    THEN [r |-> V.r, s |-> TimesPow10(V.s, k), mp |-> V.mp, mm |-> V.mm]
    ELSE [r  |-> TimesPow10(V.r, -k), s |-> V.s,
          mp |-> TimesPow10(V.mp, -k), mm |-> TimesPow10(V.mm, -k)]

\* The upper end of the texts that read back as the double reaches 1.
ReachesOne(V, even) ==
    Compare(Plus(V.r, V.mp), V.s) >= (IF even THEN 0 ELSE 1)

\* The least k for which the digits are those of a number below 10^k.
DecimalScale(V, even, top) ==
    CHOOSE k \in (top - 1)..(top + 3) :
        ~ReachesOne(Scaled(V, k), even) /\ ReachesOne(Scaled(V, k - 1), even)

\* The digit r \div s and what is left of r, r being below 10 s.
RECURSIVE DigitOf(_, _, _)
DigitOf(r, s, d) ==
    IF Compare(r, s) < 0 THEN [digit |-> d, rest |-> r]
    ELSE DigitOf(Minus(r, s), s, d + 1)

\* The last digit: the one nearer to the double, the even one at a tie.
LastDigit(D, s, low, high) ==
    IF low /\ ~high THEN D.digit
    ELSE IF high /\ ~low THEN D.digit + 1
    ELSE IF \/ Compare(Times(D.rest, 2), s) < 0
            \/ Compare(Times(D.rest, 2), s) = 0 /\ D.digit % 2 = 0
    THEN D.digit
    ELSE D.digit + 1

\* The digits after the point of r / s, up to the first one from which the
\* text reads back as the double; r, mp and mm are already times ten.
RECURSIVE ShortestDigits(_, _, _, _, _)
ShortestDigits(D, s, mp, mm, even) ==
    IF /\ Compare(D.rest, mm) >= (IF even THEN 1 ELSE 0)
       /\ Compare(Plus(D.rest, mp), s) < (IF even THEN 0 ELSE 1)
    THEN <<D.digit>>
         \o ShortestDigits(DigitOf(Times(D.rest, 10), s, 0), s,
                           Times(mp, 10), Times(mm, 10), even)
    ELSE <<LastDigit(D, s,
                     Compare(D.rest, mm) < (IF even THEN 1 ELSE 0),
                     Compare(Plus(D.rest, mp), s) >= (IF even THEN 0 ELSE 1))>>

ReprDigits(V, even) ==
    ShortestDigits(DigitOf(Times(V.r, 10), V.s, 0), V.s,
                   Times(V.mp, 10), Times(V.mm, 10), even)

\* The value record of a double with these digits, below 10^k.
FloatRepr(sign, digits, k) ==
    [kind |-> "finite", sign |-> sign, digits |-> digits,
     exp |-> k - Len(digits)]

FloatScaled(sign, V, even, k) ==
    FloatRepr(sign, ReprDigits(Scaled(V, k), even), k)

FloatNear(sign, V, even, top) ==
    FloatScaled(sign, V, even, DecimalScale(V, even, top))

\* The value record of the double N.m * 2^(N.q), of about 10^top.
FloatOfDouble(sign, N, top) ==
    IF N.m = <<>>
    THEN [kind |-> "finite", sign |-> sign, digits |-> <<>>, exp |-> 0]
    ELSE IF N.q > 971
    THEN [kind |-> "inf", sign |-> sign, digits |-> <<>>, exp |-> 0]
    ELSE FloatNear(sign, Vicinity(N.m, N.q), ~Odd(N.m), top)

\* The value float() rounds sign * digits * 10^exp to, digits being without
\* leading and trailing zeros.  Above 10^309 it is inf and below 10^-324 it
\* is 0.0.  A number of at most 15 digits between 10^-307 and 10^308 keeps
\* its digits: they read back as its double, and no shorter text does.  Any
\* other is rounded to its double, and written with the digits of repr().
FloatRound(sign, digits, exp) ==
    LET top == exp + Len(digits) - 1
    IN  IF digits = <<>>
        THEN [kind |-> "finite", sign |-> sign, digits |-> <<>>, exp |-> 0]
        ELSE IF top > 308
        THEN [kind |-> "inf", sign |-> sign, digits |-> <<>>, exp |-> 0]
        ELSE IF top < -324
        THEN [kind |-> "finite", sign |-> sign, digits |-> <<>>, exp |-> 0]
        ELSE IF Len(digits) <= 15 /\ top >= -307 /\ top <= 307
        THEN [kind |-> "finite", sign |-> sign, digits |-> digits,
              exp |-> exp]
        ELSE IF exp >= 0
        THEN FloatOfDouble(sign,
                 NearestDouble(Limbs(digits \o [i \in 1..exp |-> 0]), <<1>>,
                               top),
                 top)
        ELSE FloatOfDouble(sign,
                 NearestDouble(Limbs(digits),
                               Limbs(<<1>> \o [i \in 1..(-exp) |-> 0]), top),
                 top)

\* The value of the decimal number whole.fraction * 10^exponent, the
\* exponent given by its sign and its digits.  The first digit that is not
\* 0 stands for 10^top, top being exponent + Len(lead) - Len(fraction) - 1.
FloatDecimal(sign, whole, fraction, exp_neg, exponent) ==
    LET lead == DropLeadingZeros(whole \o fraction)
    IN  IF lead = <<>>
        THEN [kind |-> "finite", sign |-> sign, digits |-> <<>>, exp |-> 0]
        ELSE IF ExponentAbove(exp_neg, exponent,
                              308 - (Len(lead) - Len(fraction) - 1))
        THEN [kind |-> "inf", sign |-> sign, digits |-> <<>>, exp |-> 0]
        ELSE IF ExponentBelow(exp_neg, exponent,
                              -324 - (Len(lead) - Len(fraction) - 1))
        THEN [kind |-> "finite", sign |-> sign, digits |-> <<>>, exp |-> 0]
        ELSE FloatRound(sign, DropTrailingZeros(lead),
                        (IF exp_neg THEN -ExponentValue(exponent)
                                    ELSE ExponentValue(exponent))
                          - Len(fraction)
                          + (Len(lead) - Len(DropTrailingZeros(lead))))

FloatOf(P) ==
    IF P.word \in Infinity
    THEN [kind |-> "inf", sign |-> IF P.negative THEN -1 ELSE 1,
          digits |-> <<>>, exp |-> 0]
    ELSE IF P.word = NaN
    THEN [kind |-> "nan", sign |-> 1, digits |-> <<>>, exp |-> 0]
    ELSE FloatDecimal(IF P.negative THEN -1 ELSE 1,
                      DigitsOf(P.whole), DigitsOf(P.fraction),
                      P.exp_neg, DropLeadingZeros(DigitsOf(P.exp)))

\* The value of float(s) for a text float() reads: the double nearest to
\* the number written.  kind is "finite", "inf" or "nan"; sign is 1 or -1
\* (float keeps the sign of -0.0 and of -inf); a finite value is the double
\* that repr() writes as sign * digits * 10^exp, digits being without
\* leading and trailing zeros (none for 0.0): the digits json.dump puts in
\* products.json.  7.0 is digits <<7>>, exp 0; 120.0 is <<1, 2>>, 1; 1.5
\* is <<1, 5>>, -1; float('9007199254740993') is 9007199254740992.0.
FloatValue(s) == FloatOf(FloatParts(s))

price_str(row) == strip(remove(remove(row.Price, "₫"), ","))

get_category_ids(category_path) ==
    CASE category_path = "ao-bong-da-ban-player-2022" -> <<1, 2, 3>>
      [] category_path = "ao-bong-da-ban-fan" -> <<1, 2, 4>>
      [] category_path = "giay-puma" -> <<1, 5, 6>>
      [] category_path = "giay-nike" -> <<1, 5, 7>>
      [] category_path = "giay-adidas" -> <<1, 5, 8>>
      [] category_path = "giay-bong-da" -> <<1, 5>>
      [] category_path = "frontpage" -> <<1>>
      [] category_path = "all" -> <<1>>
      [] category_path = "ao-giu-nhiet" -> <<1>>
      [] OTHER -> <<>>

(***************************************************************************)
(* create_product_dict.  None is the Python None; now stands for the       *)
(* value of datetime.now().isoformat() during the call.                    *)
(***************************************************************************)
None == "None"

\* Variant: the Sizes text is not trimmed.
has_sizes_untrimmed(row) == row.Sizes # Absent /\ row.Sizes # <<>>

has_sizes(row) == row.Sizes # Absent /\ strip(row.Sizes) # <<>>

has_colors(row) == row.Colors # Absent /\ strip(row.Colors) # <<>>

product_type(row) ==
    IF has_sizes(row) \/ has_colors(row) THEN "CONFIGURABLE" ELSE "SIMPLE"

\* Variant: the position is the index of enumerate, counted from 0.
mediaGallery_zero_based(row, now) ==
    LET urls == split(row.Image_URLs, ",")
    IN  [idx \in 1..Len(urls) |->
           [url |-> strip(urls[idx]),
            alt |-> row.Product_Name,
            label |-> row.Product_Name,
            position |-> idx - 1,
            isDisabled |-> FALSE,
            isDeleted |-> FALSE,
            createdAt |-> now,
            updatedAt |-> now,
            deletedAt |-> None]]

mediaGallery(row, now) ==
    LET urls == split(row.Image_URLs, ",")
    IN  [idx \in 1..Len(urls) |->
           [url |-> strip(urls[idx]),
            alt |-> row.Product_Name,
            label |-> row.Product_Name,
            position |-> idx,
            isDisabled |-> FALSE,
            isDeleted |-> FALSE,
            createdAt |-> now,
            updatedAt |-> now,
            deletedAt |-> None]]

axis_attribute(code, name, now) ==
    [code |-> code, name |-> name, value |-> code, isEnabled |-> TRUE,
     createdAt |-> now, updatedAt |-> now, deletedAt |-> None]

axis_variant(code, name, text, price, gallery, now) ==
    LET values == split(text, ",")
    IN  [attributes |->
           [i \in 1..Len(values) |->
              [code |-> code, name |-> name, value |-> strip(values[i]),
               priceAdjustment |-> 0, createdAt |-> now, updatedAt |-> now]],
         price |-> price,
         stockQuantity |-> 0,
         name |-> name,
         code |-> code,
         imageUrl |-> IF gallery # <<>> THEN gallery[1].url ELSE <<>>,
         isDisabled |-> FALSE,
         isDeleted |-> FALSE,
         createdAt |-> now,
         updatedAt |-> now]

\* Variant: the colour entry is appended before the size entry.
variants_color_first(row, price, gallery, now) ==
    IF product_type(row) = "CONFIGURABLE"
    THEN (IF has_colors(row)
          THEN <<axis_variant("color", "Color", row.Colors, price, gallery,
                              now)>>
          ELSE <<>>)
         \o
         (IF has_sizes(row)
          THEN <<axis_variant("size", "Size", row.Sizes, price, gallery, now)>>
          ELSE <<>>)
    ELSE <<>>

variants(row, price, gallery, now) ==
    IF product_type(row) = "CONFIGURABLE"
    THEN (IF has_sizes(row)
          THEN <<axis_variant("size", "Size", row.Sizes, price, gallery, now)>>
          ELSE <<>>)
         \o
         (IF has_colors(row)
          THEN <<axis_variant("color", "Color", row.Colors, price, gallery,
                              now)>>
          ELSE <<>>)
    ELSE <<>>

attributes(row, now) ==
    IF product_type(row) = "CONFIGURABLE"
    THEN (IF has_sizes(row) THEN <<axis_attribute("size", "Size", now)>>
                            ELSE <<>>)
         \o
         (IF has_colors(row) THEN <<axis_attribute("color", "Color", now)>>
                             ELSE <<>>)
    ELSE <<>>

\* float(price_str) raises ValueError: the call builds nothing.
PriceRaises(row) == ~FloatParses(price_str(row))

create_product_dict(row, description, short_description, now) ==
    LET price   == FloatValue(price_str(row))
        gallery == mediaGallery(row, now)
    IN  [product_name |-> row.Product_Name,
         product_sku |-> row.SKU,
         categoryIds |-> get_category_ids(row.Category),
         price |-> price,
         special_price |-> None,
         fallbackPrice |-> price,
         salable_qty |-> 0,
         short_description |-> short_description,
         description |-> description,
         mediaGallery |-> gallery,
         product_type |-> product_type(row),
         variants |-> variants(row, price, gallery, now),
         attributes |-> attributes(row, now),
         isDisabled |-> FALSE,
         isDeleted |-> FALSE,
         createdAt |-> now,
         updatedAt |-> now,
         deletedAt |-> None]

NoProduct == create_product_dict(
    [Product_Name |-> "", SKU |-> "", Category |-> "", Price |-> <<"0">>,
     Image_URLs |-> <<>>, Sizes |-> Absent, Colors |-> Absent], "", "", 0)

NoRow == [Product_Name |-> "", SKU |-> "", Category |-> "", Price |-> <<>>,
          Image_URLs |-> <<>>, Sizes |-> Absent, Colors |-> Absent]

BuildIdle ==
    /\ build_row = NoRow /\ build_pc = "idle" /\ build_product = NoProduct

(***************************************************************************)
(* SpecBuild: create_product_dict applied to one row.                      *)
(***************************************************************************)
PriceTexts ==
    { <<"1", ",", "2", "0", "₫">>, <<" ", "7", " ">>, <<"1", " ", "2">>,
      <<"\t", "7", "\n">>, <<"1", ".", "5", "0">>, <<"-", "1", "e", "1">>,
      <<"1", "_", "0">>, <<"U+0663">>, <<"I", "n", "f">>,
      <<"x">> }

ImageTexts ==
    { <<>>, <<"u">>, <<" ", "u", ",", " ", "v">>, <<"u", ",">>,
      <<"\t", "u", "\n", ",", "v", "U+3000">> }

AxisTexts ==
    {Absent} \cup SeqsUpTo({"S", ",", " "}, MaxAxisLen)
             \cup { <<"\t">>, <<"\n", "S", "U+00A0">> }

\* Prices that are not doubles: float() rounds 9007199254740993 to
\* 9007199254740992.0, 9999999999999999 to 1e16, 0.1234567890123456789 to
\* 0.12345678901234568 and 3e-324 to 5e-324.
RoundedPriceTexts ==
    { <<"9", ",", "0", "0", "7", ",", "1", "9", "9", ",", "2", "5", "4",
        ",", "7", "4", "0", ",", "9", "9", "3", "₫">>,
      <<"9", ",", "9", "9", "9", ",", "9", "9", "9", ",", "9", "9", "9",
        ",", "9", "9", "9", ",", "9", "9", "9", "₫">>,
      <<"0", ".", "1", "2", "3", "4", "5", "6", "7", "8", "9", "0", "1",
        "2", "3", "4", "5", "6", "7", "8", "9">>,
      <<"3", "e", "-", "3", "2", "4">> }

BuildRows ==
    [Product_Name : {"A"}, SKU : {"K1"}, Category : {"giay-nike", "khac"},
     Price : PriceTexts, Image_URLs : ImageTexts,
     Sizes : AxisTexts, Colors : AxisTexts]
    \cup
    [Product_Name : {"A"}, SKU : {"K1"}, Category : {"khac"},
     Price : RoundedPriceTexts, Image_URLs : {<<"u">>},
     Sizes : {Absent}, Colors : {Absent}]

InitBuildCall ==
    /\ build_row \in BuildRows
    /\ build_pc = "call"
    /\ build_product = NoProduct

BuildOk ==
    /\ build_pc = "call"
    /\ ~PriceRaises(build_row)
    /\ build_product' = create_product_dict(build_row, "D1", "S1", 1)
    /\ build_pc' = "built"
    /\ UNCHANGED build_row

BuildRaises ==
    /\ build_pc = "call"
    /\ PriceRaises(build_row)
    /\ build_pc' = "raised"
    /\ UNCHANGED <<build_row, build_product>>

(***************************************************************************)
(* SpecConv: convert_csv_to_json.  Row conv_i is handled in two steps,     *)
(* the generation call and the record build; the clock of row i is i.      *)
(***************************************************************************)
ConvIdle ==
    /\ csv_rows = <<>> /\ conv_pc = "idle" /\ conv_i = 0
    /\ conv_pair = NoPair /\ results = <<>> /\ conv_calls = <<>>

ConvRows ==
    [Product_Name : Names, SKU : {"K1"}, Category : {"giay-nike"},
     Price : {<<"1", ",", "2", "0", "₫">>, <<"x">>}, Image_URLs : {<<"u">>},
     Sizes : {Absent}, Colors : {Absent}]

InitConvert ==
    /\ csv_rows \in SeqsUpTo(ConvRows, MaxRows)
    /\ conv_pc = IF csv_rows = <<>> THEN "write" ELSE "gen"
    /\ conv_i = 1
    /\ conv_pair = NoPair
    /\ results = <<>>
    /\ conv_calls = <<>>

\* description, short_description = get_ollama_description(...)
ConvGenerate ==
    /\ conv_pc = "gen"
    /\ \E call \in CallTable["abc", csv_rows[conv_i].Product_Name] :
         /\ conv_pair' = call.pair
         /\ conv_calls' = Append(conv_calls, call.validated)
    /\ conv_pc' = "build"
    /\ UNCHANGED <<csv_rows, conv_i, results>>

\* Variant: the new record goes to the front of results.
ConvBuild_prepends ==
    /\ conv_pc = "build"
    /\ ~PriceRaises(csv_rows[conv_i])
    /\ results' = <<create_product_dict(csv_rows[conv_i], conv_pair[1],
                                        conv_pair[2], conv_i)>> \o results
    /\ conv_i' = conv_i + 1
    /\ conv_pc' = IF conv_i + 1 > Len(csv_rows) THEN "write" ELSE "gen"
    /\ UNCHANGED <<csv_rows, conv_pair, conv_calls>>

\* product = create_product_dict(...); results.append(product)
ConvBuild ==
    /\ conv_pc = "build"
    /\ ~PriceRaises(csv_rows[conv_i])
    /\ results' = Append(results,
                         create_product_dict(csv_rows[conv_i], conv_pair[1],
                                             conv_pair[2], conv_i))
    /\ conv_i' = conv_i + 1
    /\ conv_pc' = IF conv_i + 1 > Len(csv_rows) THEN "write" ELSE "gen"
    /\ UNCHANGED <<csv_rows, conv_pair, conv_calls>>

\* Variant: the row with the bad price is skipped and the run goes on.
ConvBuildRaises_skips ==
    /\ conv_pc = "build"
    /\ PriceRaises(csv_rows[conv_i])
    /\ conv_i' = conv_i + 1
    /\ conv_pc' = IF conv_i + 1 > Len(csv_rows) THEN "write" ELSE "gen"
    /\ UNCHANGED <<csv_rows, conv_pair, results, conv_calls>>

\* float(price_str) raises: nothing catches it, the program ends.
ConvBuildRaises ==
    /\ conv_pc = "build"
    /\ PriceRaises(csv_rows[conv_i])
    /\ conv_pc' = "raised"
    /\ UNCHANGED <<csv_rows, conv_i, conv_pair, results, conv_calls>>

\* json.dump(results, jsonfile, ...)
ConvWrite ==
    /\ conv_pc = "write"
    /\ catalog_file' = results
    /\ catalog_exists' = TRUE
    /\ catalog_cut' = FALSE
    /\ catalog_writes' = catalog_writes + 1
    /\ conv_pc' = "done"
    /\ UNCHANGED <<csv_rows, conv_i, conv_pair, results, conv_calls>>
    /\ UNCHANGED <<backup_tries, backups, report_exists, report_file,
                   report_cut, report_writes, catalog_before, cut_before,
                   report_before, prev>>

\* What a write that raises leaves of products.json.  Either
\* open(..., 'w') raised, and the file is what it was; or open created or
\* emptied the file and json.dump raised part-way (a text that does not
\* encode, a device error): the file holds the start of a document, no
\* record of it can be read again, and what it held before is lost.
WriteRaises(opened) ==
    IF opened
    THEN /\ catalog_exists' = TRUE
         /\ catalog_file' = <<>>
         /\ catalog_cut' = TRUE
         /\ UNCHANGED <<catalog_writes, backup_tries, backups, report_exists,
                        report_file, report_cut, report_writes, catalog_before,
                        cut_before, report_before, prev>>
    ELSE UNCHANGED fileVars

\* with open('products.json', 'w') ...: json.dump(...) raises, and nothing
\* catches it.
ConvWriteRaises ==
    /\ conv_pc = "write"
    /\ conv_pc' = "raised"
    /\ \E opened \in BOOLEAN : WriteRaises(opened)
    /\ UNCHANGED <<csv_rows, conv_i, conv_pair, results, conv_calls>>

(***************************************************************************)
(* SpecRepair: main and update_product_descriptions, run after run.        *)
(***************************************************************************)
\* The scan: the records is_default_description flags, in catalog order.
\* Variant: a flagged record is put at the front of the list.
RECURSIVE ScanFrom_reversed(_, _)
ScanFrom_reversed(prods, i) ==
    IF i > Len(prods) THEN <<>>
    ELSE ScanFrom_reversed(prods, i + 1)
         \o (IF is_default_description(prods[i].description,
                                       prods[i].short_description,
                                       prods[i].product_name)
             THEN <<i>> ELSE <<>>)

RECURSIVE ScanFrom(_, _)
ScanFrom(prods, i) ==
    IF i > Len(prods) THEN <<>>
    ELSE (IF is_default_description(prods[i].description,
                                    prods[i].short_description,
                                    prods[i].product_name)
          THEN <<i>> ELSE <<>>)
         \o ScanFrom(prods, i + 1)

ScanFlagged(prods) == ScanFrom(prods, 1)

\* Variant: createdAt is stamped along with updatedAt.
repair_record_recreated(product, pair, now) ==
    IF ~is_default_description(pair[1], pair[2], product.product_name)
    THEN [product EXCEPT !.description = pair[1],
                         !.short_description = pair[2],
                         !.createdAt = now,
                         !.updatedAt = now]
    ELSE product

\* What the loop body does to a flagged record, given the returned pair.
repair_record(product, pair, now) ==
    IF ~is_default_description(pair[1], pair[2], product.product_name)
    THEN [product EXCEPT !.description = pair[1],
                         !.short_description = pair[2],
                         !.updatedAt = now]
    ELSE product

repair_failed(product, pair) ==
    is_default_description(pair[1], pair[2], product.product_name)

RepairIdle ==
    /\ rep_pc = "idle" /\ rep_exit = "" /\ run = 0 /\ products = <<>>
    /\ products_to_update = <<>> /\ rep_k = 0 /\ success_count = 0
    /\ failed_products = <<>> /\ rep_calls = <<>> /\ probes = <<>>

NoReport == [exists |-> FALSE, names |-> <<>>, cut |-> FALSE]

\* failed_description_updates.json as it is now.
ReportNow ==
    [exists |-> report_exists, names |-> report_file, cut |-> report_cut]

NoRun == [ran |-> FALSE, exit |-> "", failed |-> <<>>, validated |-> FALSE,
          unchanged |-> TRUE]

FilesIdle ==
    /\ catalog_exists = FALSE /\ catalog_file = <<>> /\ catalog_cut = FALSE
    /\ catalog_writes = 0
    /\ backup_tries = 0 /\ backups = 0
    /\ report_exists = FALSE /\ report_file = <<>> /\ report_cut = FALSE
    /\ report_writes = 0
    /\ catalog_before = <<>> /\ cut_before = FALSE
    /\ report_before = NoReport /\ prev = NoRun

\* A catalog as the conversion leaves it: records built at time 0 from a
\* generated pair or from the placeholder of abc.py.
CatalogRecords ==
    UNION { { create_product_dict(row, p[1], p[2], 0) :
                p \in { <<"D1", "S1">>,
                        generate_default_description_abc(row.Product_Name),
                        <<generate_default_description_abc(
                              row.Product_Name)[1], "S1">> } } :
            row \in {r \in ConvRows : ~PriceRaises(r)} }

InitRepair ==
    /\ rep_pc = "probe" /\ rep_exit = "" /\ run = 1
    /\ products = <<>> /\ products_to_update = <<>> /\ rep_k = 0
    /\ success_count = 0 /\ failed_products = <<>> /\ rep_calls = <<>>
    /\ probes = <<>>
    /\ catalog_exists \in BOOLEAN
    /\ catalog_file \in IF catalog_exists
                        THEN SeqsUpTo(CatalogRecords, MaxRecords)
                        ELSE {<<>>}
    /\ catalog_cut \in IF catalog_exists /\ catalog_file = <<>>
                       THEN BOOLEAN ELSE {FALSE}
    /\ catalog_writes = 0 /\ backup_tries = 0 /\ backups = 0
    /\ report_exists = FALSE /\ report_file = <<>> /\ report_cut = FALSE
    /\ report_writes = 0
    /\ catalog_before = catalog_file
    /\ cut_before = catalog_cut
    /\ report_before = NoReport
    /\ prev = NoRun

RepLeave(reason) ==
    /\ rep_pc' = "done"
    /\ rep_exit' = reason

\* main: requests.get('http://localhost:11434/api/tags') answers 200.
RepProbeOk ==
    /\ rep_pc = "probe"
    /\ probes' = Append(probes, "ok")
    /\ rep_pc' = "exists"
    /\ UNCHANGED <<rep_exit, run, products, products_to_update, rep_k,
                   success_count, failed_products, rep_calls>>
    /\ UNCHANGED fileVars

\* Variant: the return after the failed probe is missing.
RepProbeFails_goes_on ==
    /\ rep_pc = "probe"
    /\ probes' = Append(probes, "failed")
    /\ rep_pc' = "exists"
    /\ UNCHANGED <<rep_exit, run, products, products_to_update, rep_k,
                   success_count, failed_products, rep_calls>>
    /\ UNCHANGED fileVars

\* main: the probe answers another status, or raises.
RepProbeFails ==
    /\ rep_pc = "probe"
    /\ probes' = Append(probes, "failed")
    /\ RepLeave("probe")
    /\ UNCHANGED <<run, products, products_to_update, rep_k, success_count,
                   failed_products, rep_calls>>
    /\ UNCHANGED fileVars

\* if not os.path.exists(json_file): return
RepMissing ==
    /\ rep_pc = "exists"
    /\ ~catalog_exists
    /\ RepLeave("missing")
    /\ UNCHANGED <<run, products, products_to_update, rep_k, success_count,
                   failed_products, rep_calls, probes>>
    /\ UNCHANGED fileVars

\* backup_json: shutil.copy succeeds.
RepBackupOk ==
    /\ rep_pc = "exists"
    /\ catalog_exists
    /\ backup_tries' = backup_tries + 1
    /\ backups' = backups + 1
    /\ rep_pc' = "load"
    /\ UNCHANGED <<rep_exit, run, products, products_to_update, rep_k,
                   success_count, failed_products, rep_calls, probes>>
    /\ UNCHANGED <<catalog_exists, catalog_cut, catalog_file, catalog_writes,
                   report_exists, report_file, report_cut, report_writes,
                   catalog_before, cut_before, report_before, prev>>

\* Variant: a backup that cannot be made ends the run.
RepBackupFails_aborts ==
    /\ rep_pc = "exists"
    /\ catalog_exists
    /\ backup_tries' = backup_tries + 1
    /\ RepLeave("backup")
    /\ UNCHANGED <<run, products, products_to_update, rep_k, success_count,
                   failed_products, rep_calls, probes>>
    /\ UNCHANGED <<catalog_exists, catalog_cut, catalog_file, catalog_writes,
                   backups, report_exists, report_file, report_cut,
                   report_writes, catalog_before, cut_before, report_before,
                   prev>>

\* backup_json: shutil.copy raises, which is logged and nothing more.
RepBackupFails ==
    /\ rep_pc = "exists"
    /\ catalog_exists
    /\ backup_tries' = backup_tries + 1
    /\ rep_pc' = "load"
    /\ UNCHANGED <<rep_exit, run, products, products_to_update, rep_k,
                   success_count, failed_products, rep_calls, probes>>
    /\ UNCHANGED <<catalog_exists, catalog_cut, catalog_file, catalog_writes,
                   backups, report_exists, report_file, report_cut,
                   report_writes, catalog_before, cut_before, report_before,
                   prev>>

\* products = json.load(f)
RepLoadOk ==
    /\ rep_pc = "load"
    /\ ~catalog_cut
    /\ products' = catalog_file
    /\ rep_pc' = "scan"
    /\ UNCHANGED <<rep_exit, run, products_to_update, rep_k, success_count,
                   failed_products, rep_calls, probes>>
    /\ UNCHANGED fileVars

\* Variant: an unreadable catalog is replaced by an empty one.
RepLoadFails_rewrites ==
    /\ rep_pc = "load"
    /\ RepLeave("load")
    /\ catalog_file' = <<>>
    /\ catalog_cut' = FALSE
    /\ catalog_writes' = catalog_writes + 1
    /\ UNCHANGED <<run, products, products_to_update, rep_k, success_count,
                   failed_products, rep_calls, probes>>
    /\ UNCHANGED <<catalog_exists, backup_tries, backups, report_exists,
                   report_file, report_cut, report_writes, catalog_before,
                   cut_before, report_before, prev>>

\* open or json.load raises: return
RepLoadFails ==
    /\ rep_pc = "load"
    /\ RepLeave("load")
    /\ UNCHANGED <<run, products, products_to_update, rep_k, success_count,
                   failed_products, rep_calls, probes>>
    /\ UNCHANGED fileVars

\* The scan loop, and the return when it flags nothing.
RepScan ==
    /\ rep_pc = "scan"
    /\ products_to_update' = ScanFlagged(products)
    /\ IF ScanFlagged(products) = <<>>
       THEN /\ RepLeave("noflagged")
            /\ UNCHANGED rep_k
       ELSE /\ rep_pc' = "repair"
            /\ rep_k' = 1
            /\ UNCHANGED rep_exit
    /\ UNCHANGED <<run, products, success_count, failed_products, rep_calls,
                   probes>>
    /\ UNCHANGED fileVars

\* One pass of the loop over products_to_update.
RepRepair ==
    /\ rep_pc = "repair"
    /\ LET i            == products_to_update[rep_k]
           product      == products[i]
           product_name == product.product_name
       IN  \E call \in CallTable["repair", product_name] :
             /\ products' = [products EXCEPT
                               ![i] = repair_record(product, call.pair, run)]
             /\ success_count' =
                    IF repair_failed(product, call.pair)
                    THEN success_count ELSE success_count + 1
             /\ failed_products' =
                    IF repair_failed(product, call.pair)
                    THEN Append(failed_products, product_name)
                    ELSE failed_products
             /\ rep_calls' = Append(rep_calls,
                                    [pair |-> call.pair,
                                     validated |-> call.validated])
    /\ rep_k' = rep_k + 1
    /\ rep_pc' = IF rep_k = Len(products_to_update) THEN "save" ELSE "repair"
    /\ UNCHANGED <<rep_exit, run, products_to_update, probes>>
    /\ UNCHANGED fileVars

\* Variant: products_to_update is dumped in place of products.
RepSaveOk_flagged_only ==
    /\ rep_pc = "save"
    /\ catalog_file' = [j \in 1..Len(products_to_update) |->
                          products[products_to_update[j]]]
    /\ catalog_cut' = FALSE
    /\ catalog_writes' = catalog_writes + 1
    /\ rep_pc' = "report"
    /\ UNCHANGED <<rep_exit, run, products, products_to_update, rep_k,
                   success_count, failed_products, rep_calls, probes>>
    /\ UNCHANGED <<catalog_exists, backup_tries, backups, report_exists,
                   report_file, report_cut, report_writes, catalog_before,
                   cut_before, report_before, prev>>

\* json.dump(products, f, ...) into products.json
RepSaveOk ==
    /\ rep_pc = "save"
    /\ catalog_file' = products
    /\ catalog_cut' = FALSE
    /\ catalog_writes' = catalog_writes + 1
    /\ rep_pc' = "report"
    /\ UNCHANGED <<rep_exit, run, products, products_to_update, rep_k,
                   success_count, failed_products, rep_calls, probes>>
    /\ UNCHANGED <<catalog_exists, backup_tries, backups, report_exists,
                   report_file, report_cut, report_writes, catalog_before,
                   cut_before, report_before, prev>>

\* Variant: the return after the failed write is missing.
RepSaveFails_goes_on ==
    /\ rep_pc = "save"
    /\ rep_pc' = "report"
    /\ \E opened \in BOOLEAN : WriteRaises(opened)
    /\ UNCHANGED <<rep_exit, run, products, products_to_update, rep_k,
                   success_count, failed_products, rep_calls, probes>>

\* The try around open(json_file, 'w') and json.dump raises: logged, return.
RepSaveFails ==
    /\ rep_pc = "save"
    /\ RepLeave("save")
    /\ \E opened \in BOOLEAN : WriteRaises(opened)
    /\ UNCHANGED <<run, products, products_to_update, rep_k, success_count,
                   failed_products, rep_calls, probes>>

\* if failed_products: ... else: nothing is written
RepReportNone ==
    /\ rep_pc = "report"
    /\ failed_products = <<>>
    /\ RepLeave("saved")
    /\ UNCHANGED <<run, products, products_to_update, rep_k, success_count,
                   failed_products, rep_calls, probes>>
    /\ UNCHANGED fileVars

\* Variant: the report is opened for appending.
RepReportOk_appends ==
    /\ rep_pc = "report"
    /\ failed_products # <<>>
    /\ report_file' = report_file \o failed_products
    /\ report_exists' = TRUE
    /\ report_cut' = FALSE
    /\ report_writes' = report_writes + 1
    /\ RepLeave("saved")
    /\ UNCHANGED <<run, products, products_to_update, rep_k, success_count,
                   failed_products, rep_calls, probes>>
    /\ UNCHANGED <<catalog_exists, catalog_cut, catalog_file, catalog_writes,
                   backup_tries, backups, catalog_before, cut_before,
                   report_before, prev>>

\* json.dump(failed_products, f, ...) into failed_description_updates.json
RepReportOk ==
    /\ rep_pc = "report"
    /\ failed_products # <<>>
    /\ report_file' = failed_products
    /\ report_exists' = TRUE
    /\ report_cut' = FALSE
    /\ report_writes' = report_writes + 1
    /\ RepLeave("saved")
    /\ UNCHANGED <<run, products, products_to_update, rep_k, success_count,
                   failed_products, rep_calls, probes>>
    /\ UNCHANGED <<catalog_exists, catalog_cut, catalog_file, catalog_writes,
                   backup_tries, backups, catalog_before, cut_before,
                   report_before, prev>>

\* What a write of the report that raises leaves of
\* failed_description_updates.json.  Either open(failed_log, 'w') raised,
\* and the file is what it was; or open created or emptied the file and
\* json.dump raised (a device error; the names themselves encode, each was
\* written with the catalog at the save just before): the file holds no
\* document, and the names an earlier run wrote in it are lost.
ReportRaises(opened) ==
    IF opened
    THEN /\ report_exists' = TRUE
         /\ report_file' = <<>>
         /\ report_cut' = TRUE
         /\ UNCHANGED <<catalog_exists, catalog_file, catalog_cut,
                        catalog_writes, backup_tries, backups, report_writes,
                        catalog_before, cut_before, report_before, prev>>
    ELSE UNCHANGED fileVars

\* The write of the report raises: the except of line 193 logs it, and the
\* run ends as one that saved.
RepReportFails ==
    /\ rep_pc = "report"
    /\ failed_products # <<>>
    /\ RepLeave("saved")
    /\ \E opened \in BOOLEAN : ReportRaises(opened)
    /\ UNCHANGED <<run, products, products_to_update, rep_k, success_count,
                   failed_products, rep_calls, probes>>

\* products.json is what it was when the run began.
CatalogAsBefore == catalog_file = catalog_before /\ catalog_cut = cut_before

\* What a finished run did: where it left, the names it reported as
\* failed, whether any response of the service validated, and whether
\* products.json holds what it held when the run began.
RunSummary ==
    [ran       |-> TRUE,
     exit      |-> rep_exit,
     failed    |-> failed_products,
     validated |-> \E j \in 1..Len(rep_calls) : rep_calls[j].validated,
     unchanged |-> CatalogAsBefore]

\* The program is started again.
RepNextRun ==
    /\ rep_pc = "done"
    /\ run < MaxRuns
    /\ prev' = RunSummary
    /\ run' = run + 1
    /\ rep_pc' = "probe" /\ rep_exit' = ""
    /\ products' = <<>> /\ products_to_update' = <<>> /\ rep_k' = 0
    /\ success_count' = 0 /\ failed_products' = <<>> /\ rep_calls' = <<>>
    /\ probes' = <<>>
    /\ catalog_writes' = 0 /\ backup_tries' = 0 /\ backups' = 0
    /\ report_writes' = 0
    /\ catalog_before' = catalog_file
    /\ cut_before' = catalog_cut
    /\ report_before' = ReportNow
    /\ UNCHANGED <<catalog_exists, catalog_cut, catalog_file, report_exists,
                   report_file, report_cut>>

(***************************************************************************)
(* The specifications.                                                     *)
(***************************************************************************)
InitGen == InitGenCall /\ BuildIdle /\ ConvIdle /\ RepairIdle /\ FilesIdle

NextGen ==
    \/ GenRequest /\ UNCHANGED <<buildVars, convVars, repairVars, fileVars>>
    \/ GenSleep /\ UNCHANGED <<buildVars, convVars, repairVars, fileVars>>

SpecGen == InitGen /\ [][NextGen]_vars

InitBuild == InitBuildCall /\ GenIdle /\ ConvIdle /\ RepairIdle /\ FilesIdle

NextBuild ==
    \/ BuildOk /\ UNCHANGED <<genVars, convVars, repairVars, fileVars>>
    \/ BuildRaises /\ UNCHANGED <<genVars, convVars, repairVars, fileVars>>

SpecBuild == InitBuild /\ [][NextBuild]_vars

InitConv == InitConvert /\ GenIdle /\ BuildIdle /\ RepairIdle /\ FilesIdle

NextConv ==
    \/ ConvGenerate /\ UNCHANGED <<genVars, buildVars, repairVars, fileVars>>
    \/ ConvBuild /\ UNCHANGED <<genVars, buildVars, repairVars, fileVars>>
    \/ ConvBuildRaises
         /\ UNCHANGED <<genVars, buildVars, repairVars, fileVars>>
    \/ ConvWrite /\ UNCHANGED <<genVars, buildVars, repairVars>>
    \/ ConvWriteRaises /\ UNCHANGED <<genVars, buildVars, repairVars>>

SpecConv == InitConv /\ [][NextConv]_vars

InitRep == InitRepair /\ GenIdle /\ BuildIdle /\ ConvIdle

NextRep ==
    \/ RepProbeOk /\ UNCHANGED <<genVars, buildVars, convVars>>
    \/ RepProbeFails /\ UNCHANGED <<genVars, buildVars, convVars>>
    \/ RepMissing /\ UNCHANGED <<genVars, buildVars, convVars>>
    \/ RepBackupOk /\ UNCHANGED <<genVars, buildVars, convVars>>
    \/ RepBackupFails /\ UNCHANGED <<genVars, buildVars, convVars>>
    \/ RepLoadOk /\ UNCHANGED <<genVars, buildVars, convVars>>
    \/ RepLoadFails /\ UNCHANGED <<genVars, buildVars, convVars>>
    \/ RepScan /\ UNCHANGED <<genVars, buildVars, convVars>>
    \/ RepRepair /\ UNCHANGED <<genVars, buildVars, convVars>>
    \/ RepSaveOk /\ UNCHANGED <<genVars, buildVars, convVars>>
    \/ RepSaveFails /\ UNCHANGED <<genVars, buildVars, convVars>>
    \/ RepReportNone /\ UNCHANGED <<genVars, buildVars, convVars>>
    \/ RepReportOk /\ UNCHANGED <<genVars, buildVars, convVars>>
    \/ RepReportFails /\ UNCHANGED <<genVars, buildVars, convVars>>
    \/ RepNextRun /\ UNCHANGED <<genVars, buildVars, convVars>>

SpecRepair == InitRep /\ [][NextRep]_vars

(***************************************************************************)
(* The claims.                                                             *)
(***************************************************************************)
\* C3: the placeholder of a name is the same pair in abc.py and in the
\* repair module, so is_default_description accepts the pair either client
\* returns on fallback, and every record the conversion built from a
\* fallback pair is flagged by the scan of the repair.
C3_FallbackIsDetected ==
    /\ \A n \in Names :
          /\ generate_default_description_abc(n)
                = generate_default_description(n)
          /\ \A m \in {"abc", "repair"} :
                is_default_description(DefaultOf(m, n)[1],
                                       DefaultOf(m, n)[2], n)
    /\ (conv_pc = "build" /\ ~conv_calls[conv_i]) =>
          is_default_description(conv_pair[1], conv_pair[2],
                                 csv_rows[conv_i].Product_Name)
    /\ \A j \in 1..Len(results) :
          ~conv_calls[j] =>
             is_default_description(results[j].description,
                                    results[j].short_description,
                                    results[j].product_name)
    /\ conv_pc = "done" =>
          \A j \in 1..Len(catalog_file) :
             ~conv_calls[j] => j \in Range(ScanFlagged(catalog_file))

C3_Witness ==
    /\ conv_pc = "done"
    /\ Len(catalog_file) = 2
    /\ ~conv_calls[1] /\ conv_calls[2]
    /\ ScanFlagged(catalog_file) = <<1>>

\* C4: a flagged record whose call returned the placeholder of its name is
\* left as it was and its name joins failed_products; any other flagged
\* record has exactly description, short_description and updatedAt
\* replaced; the two counts add up to the flagged records handled, which
\* are all of them once the loop is over.
C4_IsPlaceholder(j) ==
    rep_calls[j].pair
       = generate_default_description(
             catalog_before[products_to_update[j]].product_name)

RECURSIVE C4_FailedNames(_)
C4_FailedNames(j) ==
    IF j > Len(rep_calls) THEN <<>>
    ELSE (IF C4_IsPlaceholder(j)
          THEN <<catalog_before[products_to_update[j]].product_name>>
          ELSE <<>>)
         \o C4_FailedNames(j + 1)

C4_UpdatedOrFailed ==
    rep_calls # <<>> =>
       /\ \A j \in 1..Len(rep_calls) :
             LET old == catalog_before[products_to_update[j]]
                 new == products[products_to_update[j]]
             IN  IF C4_IsPlaceholder(j)
                 THEN new = old
                 ELSE /\ new = [old EXCEPT
                                  !.description = rep_calls[j].pair[1],
                                  !.short_description = rep_calls[j].pair[2],
                                  !.updatedAt = run]
                      /\ new.updatedAt # old.updatedAt
       /\ failed_products = C4_FailedNames(1)
       /\ success_count
             = Cardinality({j \in 1..Len(rep_calls) : ~C4_IsPlaceholder(j)})
       /\ success_count + Len(failed_products) = Len(rep_calls)
       /\ rep_pc # "repair" => Len(rep_calls) = Len(products_to_update)

C4_Witness ==
    /\ rep_pc = "save"
    /\ Len(products_to_update) = 2
    /\ success_count = 1
    /\ Len(failed_products) = 1
    /\ products[products_to_update[1]] = catalog_before[products_to_update[1]]
    /\ products[products_to_update[2]].description = "D1"

\* C5, as claimed: a run in which no response of the service validated
\* leaves products.json what it was when the run began; of two such runs in
\* succession that both got to the catalog, or both did not, the second
\* also finds the catalog the first one found and reports the same failed
\* names.
C5_Loaded(exit) == exit \in {"noflagged", "save", "saved"}

C5_Idempotent ==
    /\ (rep_pc = "done" /\ ~RunSummary.validated) => CatalogAsBefore
    /\ (/\ rep_pc = "done"
        /\ prev.ran
        /\ ~prev.validated
        /\ ~RunSummary.validated
        /\ C5_Loaded(prev.exit) = C5_Loaded(rep_exit)) =>
          /\ prev.unchanged
          /\ failed_products = prev.failed

\* C6: a run that finds no catalog file, or cannot read or parse it, ends
\* there: the catalog file is not written, no record is loaded or mutated,
\* the failure report is not written and the Generation Client is not
\* called.
C6_AbortsWithoutChanges ==
    (rep_pc = "done" /\ rep_exit \in {"missing", "load"}) =>
       /\ catalog_writes = 0
       /\ CatalogAsBefore
       /\ products = <<>>
       /\ report_writes = 0
       /\ ReportNow = report_before
       /\ rep_calls = <<>>

C6_Witness ==
    /\ rep_pc = "done"
    /\ rep_exit = "load"
    /\ backups = 1
    /\ ScanFlagged(catalog_file) # <<>>

\* C7, as claimed: after any run that saved the catalog (and did not fail
\* to write the report) the report file holds exactly the names that failed
\* in that run.
C7_ReportAlwaysOfThisRun ==
    (/\ rep_pc = "done"
     /\ rep_exit = "saved"
     /\ (failed_products = <<>> \/ report_writes = 1)) =>
       report_file = failed_products

\* C7, as amended: the report file is written at most once per run, only
\* after the catalog was saved and only when a record failed; a write that
\* completes leaves in it exactly the failed names of that run, in catalog
\* order.  A run in which no record failed leaves the file as it found it.
\* A write that raises leaves the file as it was, or cut short with no name
\* in it.
C7_ReportOnlyOnFailure ==
    /\ report_writes <= 1
    /\ report_writes = 1 =>
          /\ rep_exit = "saved"
          /\ catalog_writes = 1
          /\ failed_products # <<>>
          /\ report_exists /\ ~report_cut
          /\ report_file = failed_products
          /\ report_file = C4_FailedNames(1)
    /\ report_writes = 0 =>
          \/ ReportNow = report_before
          \/ /\ rep_pc = "done" /\ rep_exit = "saved"
             /\ catalog_writes = 1
             /\ failed_products # <<>>
             /\ ReportNow = [exists |-> TRUE, names |-> <<>>, cut |-> TRUE]
    /\ (rep_pc = "done" /\ failed_products = <<>>) =>
          ReportNow = report_before

C7_Witness ==
    /\ rep_pc = "done"
    /\ rep_exit = "saved"
    /\ failed_products = <<>>
    /\ report_exists
    /\ report_file # <<>>
    /\ prev.failed = report_file

\* C8: the catalog holds one record per row, in input order; row i is
\* generated for and then built before anything is done for row i + 1; the
\* file is written once, after the last row.
C8_RowOf(record, row, now) ==
    /\ record.product_name = row.Product_Name
    /\ record.product_sku = row.SKU
    /\ record.price = FloatValue(price_str(row))
    /\ record.createdAt = now

C8_OneRecordPerRowInOrder ==
    /\ \A j \in 1..Len(results) : C8_RowOf(results[j], csv_rows[j], j)
    /\ conv_pc = "gen" =>
          Len(conv_calls) = conv_i - 1 /\ Len(results) = conv_i - 1
    /\ conv_pc = "build" =>
          Len(conv_calls) = conv_i /\ Len(results) = conv_i - 1
    /\ catalog_writes <= 1
    /\ catalog_writes = 1 <=> conv_pc = "done"
    /\ conv_pc = "done" =>
          /\ Len(catalog_file) = Len(csv_rows)
          /\ \A j \in 1..Len(csv_rows) :
                C8_RowOf(catalog_file[j], csv_rows[j], j)

C8_Witness ==
    /\ conv_pc = "done"
    /\ Len(csv_rows) = 2
    /\ csv_rows[1].Product_Name # csv_rows[2].Product_Name
    /\ catalog_file[1].product_name = csv_rows[1].Product_Name
    /\ catalog_file[2].product_name = csv_rows[2].Product_Name

\* C9: when the price of a row does not parse, the run ends at the first
\* such row: no record is built for it, no later row is generated for or
\* built, the run never completes and products.json is never written.
C9_BadRows == {j \in 1..Len(csv_rows) : PriceRaises(csv_rows[j])}

C9_FirstBad == CHOOSE j \in C9_BadRows : \A k \in C9_BadRows : j <= k

C9_PriceFailureIsFatal ==
    C9_BadRows # {} =>
       /\ conv_pc # "done" /\ conv_pc # "write"
       /\ catalog_writes = 0
       /\ ~catalog_exists
       /\ conv_i <= C9_FirstBad
       /\ Len(conv_calls) <= C9_FirstBad
       /\ Len(results) < C9_FirstBad
       /\ conv_pc = "raised" =>
             conv_i = C9_FirstBad /\ Len(results) = C9_FirstBad - 1

C9_Witness ==
    /\ conv_pc = "raised"
    /\ Len(csv_rows) = 2
    /\ PriceRaises(csv_rows[1])
    /\ ~PriceRaises(csv_rows[2])
    /\ results = <<>>
    /\ catalog_writes = 0

\* C10: the record built from a row is CONFIGURABLE exactly when Sizes or
\* Colors is present and holds more than white space; otherwise it is SIMPLE
\* with no variants and no attributes.
C10_Supplied(text) ==
    text # Absent /\ \E i \in 1..Len(text) : text[i] \notin WhiteSpace

C10_TypeIffAxis ==
    build_pc = "built" =>
       /\ build_product.product_type \in {"CONFIGURABLE", "SIMPLE"}
       /\ build_product.product_type = "CONFIGURABLE"
             <=> (C10_Supplied(build_row.Sizes)
                    \/ C10_Supplied(build_row.Colors))
       /\ build_product.product_type = "SIMPLE" =>
             /\ build_product.variants = <<>>
             /\ build_product.attributes = <<>>

C10_Witness ==
    /\ build_pc = "built"
    /\ build_row.Sizes = <<" ", " ">>
    /\ build_row.Colors = Absent
    /\ build_product.product_type = "SIMPLE"
    /\ build_product.variants = <<>>

\* C11: a row with at least one axis that holds more than white space gives
\* one variant per such axis and one attribute definition per such axis, size
\* before color; every per-value entry of every variant has priceAdjustment 0.
C11_Axes ==
    (IF C10_Supplied(build_row.Sizes) THEN <<"size">> ELSE <<>>)
    \o (IF C10_Supplied(build_row.Colors) THEN <<"color">> ELSE <<>>)

C11_OneEntryPerAxis ==
    (build_pc = "built" /\ C11_Axes # <<>>) =>
       /\ Len(build_product.variants) = Len(C11_Axes)
       /\ Len(build_product.attributes) = Len(C11_Axes)
       /\ \A i \in 1..Len(C11_Axes) :
             /\ build_product.variants[i].code = C11_Axes[i]
             /\ build_product.attributes[i].code = C11_Axes[i]
             /\ build_product.variants[i].attributes # <<>>
             /\ \A k \in 1..Len(build_product.variants[i].attributes) :
                   /\ build_product.variants[i].attributes[k].code = C11_Axes[i]
                   /\ build_product.variants[i].attributes[k].priceAdjustment
                         = 0

C11_Witness ==
    /\ build_pc = "built"
    /\ build_row.Sizes = <<"S", ",">>
    /\ build_row.Colors = <<" ", "S">>
    /\ Len(build_product.variants) = 2
    /\ build_product.variants[1].code = "size"
    /\ build_product.variants[2].code = "color"
    /\ Len(build_product.variants[1].attributes) = 2

\* C12: when the image field holds k >= 1 entries between its commas and
\* none of them is blank, the gallery has exactly k entries, entry i carries
\* the i-th entry of the field without the white space around it, and the
\* positions are 1..k in the order of the field.
C12_Commas(text) == {j \in 1..Len(text) : text[j] = ","}

\* Where the n-th entry starts and ends: after comma n - 1, before comma n.
C12_Cut(text, n) ==
    IF n = 0 THEN 0
    ELSE IF n > Cardinality(C12_Commas(text)) THEN Len(text) + 1
    ELSE CHOOSE j \in C12_Commas(text) :
            Cardinality({k \in C12_Commas(text) : k <= j}) = n

C12_Entry(text, n) ==
    SubSeq(text, C12_Cut(text, n - 1) + 1, C12_Cut(text, n) - 1)

C12_Trimmed(s) ==
    LET solid == {j \in 1..Len(s) : s[j] \notin WhiteSpace}
    IN  IF solid = {} THEN <<>>
        ELSE SubSeq(s, CHOOSE a \in solid : \A b \in solid : a <= b,
                       CHOOSE a \in solid : \A b \in solid : a >= b)

C12_Count(text) == Cardinality(C12_Commas(text)) + 1

C12_AllEntriesNonEmpty(text) ==
    \A n \in 1..C12_Count(text) : C12_Trimmed(C12_Entry(text, n)) # <<>>

C12_GalleryFollowsField ==
    (build_pc = "built" /\ C12_AllEntriesNonEmpty(build_row.Image_URLs)) =>
       /\ Len(build_product.mediaGallery) = C12_Count(build_row.Image_URLs)
       /\ \A n \in 1..C12_Count(build_row.Image_URLs) :
             /\ build_product.mediaGallery[n].url
                   = C12_Trimmed(C12_Entry(build_row.Image_URLs, n))
             /\ build_product.mediaGallery[n].position = n

C12_Witness ==
    /\ build_pc = "built"
    /\ build_row.Image_URLs = <<" ", "u", ",", " ", "v">>
    /\ Len(build_product.mediaGallery) = 2
    /\ build_product.mediaGallery[1].url = <<"u">>
    /\ build_product.mediaGallery[2].url = <<"v">>
    /\ build_product.mediaGallery[2].position = 2

\* C20: a row whose image field is the empty text gives a record with no
\* gallery entry at all, and every variant of the record has the empty text
\* as its imageUrl.
C20_EmptyFieldEmptyGallery ==
    (build_pc = "built" /\ build_row.Image_URLs = <<>>) =>
       /\ build_product.mediaGallery = <<>>
       /\ \A i \in 1..Len(build_product.variants) :
             build_product.variants[i].imageUrl = <<>>

\* C13: whenever the client is about to issue a request, every earlier
\* request of the call was followed by one wait of retry_delay, whatever
\* ended that attempt.
C13_DelayBeforeEveryRetry ==
    gen_pc = "request" =>
       /\ Len(gen_slept) = Len(gen_log)
       /\ \A i \in 1..Len(gen_slept) : gen_slept[i] = retry_delay

\* C14: a call returns the pair of a response only when that response has
\* status 200, a non-empty response field that parses as JSON, and both keys
\* description and short_description; an attempt whose response fails one of
\* these and is not the third is followed by a further attempt: the call
\* neither returns that response's content nor returns the placeholder
\* before the third attempt.
C14_Last == gen_log[Len(gen_log)]

C14_Acceptable(resp) ==
    /\ resp.net = "ok"
    /\ resp.status = 200
    /\ resp.body = "field"
    /\ resp.text = "json"
    /\ resp.hasD
    /\ resp.hasS

C14_AcceptsOnlyValid ==
    /\ gen_pc = "returned" =>
          /\ gen_log # <<>>
          /\ IF C14_Acceptable(C14_Last)
             THEN gen_result = <<C14_Last.d, C14_Last.s>>
             ELSE /\ Len(gen_log) = max_retries
                  /\ gen_result = DefaultOf(gen_module, gen_name)
    /\ (gen_pc \in {"request", "sleeping"} /\ gen_log # <<>>) =>
          /\ ~C14_Acceptable(C14_Last)
          /\ Len(gen_log) < max_retries
    /\ gen_pc = "sleeping" => gen_attempt = Len(gen_log) - 1
    /\ gen_pc = "request" => gen_attempt = Len(gen_log)
    /\ gen_pc \in {"request", "sleeping", "returned"}

C14_Witness ==
    /\ gen_pc = "returned"
    /\ Len(gen_log) = 2
    /\ gen_log[1].status = 200 /\ gen_log[1].text = "json"
    /\ gen_log[1].hasD /\ ~gen_log[1].hasS
    /\ C14_Acceptable(gen_log[2])
    /\ gen_result = <<"D1", "S1">>

\* C15: in a run no generation call is made before the scan has gone over
\* every record; the flagged records are then handled one at a time in
\* catalog order, and failed_products lists the failures in that order; the
\* catalog file is written at most once, and only when every flagged record
\* has been handled.
C15_Flagged ==
    {i \in 1..Len(catalog_before) :
       <<catalog_before[i].description, catalog_before[i].short_description>>
          = generate_default_description(catalog_before[i].product_name)}

C15_ScanComplete ==
    /\ Range(products_to_update) = C15_Flagged
    /\ \A a, b \in 1..Len(products_to_update) :
          a < b => products_to_update[a] < products_to_update[b]

C15_PhasesInOrder ==
    /\ rep_pc \in {"probe", "exists", "load", "scan"} =>
          /\ rep_calls = <<>>
          /\ products_to_update = <<>>
          /\ catalog_writes = 0
    /\ rep_pc \in {"repair", "save", "report"} => C15_ScanComplete
    /\ rep_calls # <<>> => C15_ScanComplete
    /\ Len(rep_calls) <= Len(products_to_update)
    /\ rep_pc = "repair" =>
          /\ rep_k = Len(rep_calls) + 1
          /\ rep_k <= Len(products_to_update)
          /\ catalog_writes = 0
    /\ \A j \in 1..Len(products_to_update) :
          j > Len(rep_calls) =>
             products[products_to_update[j]]
                = catalog_before[products_to_update[j]]
    /\ rep_calls # <<>> => failed_products = C4_FailedNames(1)
    /\ catalog_writes <= 1
    /\ catalog_writes = 1 =>
          /\ products_to_update # <<>>
          /\ Len(rep_calls) = Len(products_to_update)
          /\ rep_pc \in {"report", "done"}

C15_Witness ==
    /\ rep_pc = "repair"
    /\ Len(products_to_update) = 2
    /\ rep_k = 2
    /\ Len(rep_calls) = 1
    /\ products[products_to_update[1]].description = "D1"
    /\ products[products_to_update[2]]
          = catalog_before[products_to_update[2]]
    /\ catalog_writes = 0

\* C16, as claimed: a run that loaded the catalog and met no write error
\* has, when it ends, written the whole catalog back to products.json,
\* however many records the scan flagged (stated for a catalog that holds
\* at least one record).
C16_EveryLoadedRunSaves ==
    (/\ rep_pc = "done"
     /\ rep_exit \in {"noflagged", "saved"}
     /\ products # <<>>) =>
       /\ catalog_writes = 1
       /\ catalog_file = products

\* C16, as amended: a run that loaded the catalog, flagged at least one
\* record and met no write error ends with the whole catalog, every record
\* of it, written back once; a run whose scan flags nothing ends after the
\* scan with no generation call and products.json not written.
C16_FlaggedRunSaves ==
    /\ (rep_pc = "done" /\ rep_exit \in {"noflagged", "saved"}) =>
          (rep_exit = "saved" <=> C15_Flagged # {})
    /\ (rep_pc = "done" /\ rep_exit = "saved") =>
          /\ catalog_writes = 1
          /\ ~catalog_cut
          /\ catalog_file = products
          /\ Len(catalog_file) = Len(catalog_before)
    /\ (rep_pc = "done" /\ rep_exit = "noflagged") =>
          /\ catalog_writes = 0
          /\ CatalogAsBefore
          /\ products = catalog_before
          /\ rep_calls = <<>>
    /\ rep_pc \in {"repair", "save", "report"} => C15_Flagged # {}

C16_Witness ==
    /\ rep_pc = "done"
    /\ rep_exit = "saved"
    /\ Len(catalog_before) = 2
    /\ Len(products_to_update) = 1
    /\ catalog_writes = 1
    /\ catalog_file = products
    /\ catalog_file # catalog_before

\* C17: in a run on an existing products.json the backup copy is attempted,
\* once, before the catalog is loaded, scanned, changed or written; whether
\* the copy succeeds or fails, the next thing the run does is load the
\* catalog, and no run ends because of the backup.
C17_BackupAttempted ==
    /\ backup_tries <= 1
    /\ backups <= backup_tries
    /\ backup_tries = 0 =>
          /\ rep_pc \in {"probe", "exists", "done"}
          /\ rep_pc = "done" => rep_exit \in {"probe", "missing"}
          /\ products = <<>>
          /\ products_to_update = <<>>
          /\ rep_calls = <<>>
          /\ catalog_writes = 0
          /\ CatalogAsBefore
    /\ backup_tries = 1 =>
          /\ catalog_exists
          /\ rep_pc \in {"load", "scan", "repair", "save", "report", "done"}
          /\ rep_pc = "done" =>
                rep_exit \in {"load", "noflagged", "save", "saved"}

C17_BackupFirstNeverFatal ==
    /\ []C17_BackupAttempted
    /\ [][(rep_pc = "exists" /\ catalog_exists) =>
            (rep_pc' = "load" /\ backup_tries' = 1)]_vars

C17_Witness ==
    /\ rep_pc = "done"
    /\ rep_exit = "saved"
    /\ backup_tries = 1
    /\ backups = 0
    /\ catalog_writes = 1
    /\ catalog_file # catalog_before

\* C18: when products.json cannot be written back the run ends there: the
\* report step is never reached without the catalog having been written, so
\* the failure report is not written and stays what it was before the run,
\* even when failed_products is not empty.
C18_SaveFailureAborts ==
    /\ rep_pc = "report" => catalog_writes = 1
    /\ report_writes = 1 => catalog_writes = 1
    /\ (rep_pc = "done" /\ rep_exit = "save") =>
          /\ catalog_writes = 0
          /\ Len(rep_calls) = Len(products_to_update)
          /\ report_writes = 0
          /\ ReportNow = report_before

C18_Witness ==
    /\ rep_pc = "done"
    /\ rep_exit = "save"
    /\ failed_products # <<>>
    /\ success_count = 1
    /\ report_writes = 0
    /\ ~report_exists

\* C19: a run probes the service exactly once, before anything else is
\* done; when the probe fails (another status than 200, or a fault) the run
\* ends there: no backup copy is attempted, the catalog is neither read nor
\* written, the report is not written and no generation request is issued.
C19_Untouched ==
    /\ backup_tries = 0
    /\ backups = 0
    /\ products = <<>>
    /\ products_to_update = <<>>
    /\ rep_calls = <<>>
    /\ catalog_writes = 0
    /\ CatalogAsBefore
    /\ report_writes = 0

C19_ProbeOnceThenGate ==
    /\ Len(probes) <= 1
    /\ rep_pc = "probe" => (probes = <<>> /\ C19_Untouched)
    /\ rep_pc # "probe" => Len(probes) = 1
    /\ probes = <<"failed">> =>
          /\ rep_pc = "done"
          /\ rep_exit = "probe"
          /\ C19_Untouched

C19_Witness ==
    /\ rep_pc = "done"
    /\ probes = <<"failed">>
    /\ catalog_exists
    /\ ScanFlagged(catalog_file) # <<>>
    /\ backup_tries = 0
    /\ rep_calls = <<>>

\* C21: the records a run holds, and the catalog it writes back, are as
\* many as were loaded and in the same order; a record the scan did not
\* flag is what it was; a flagged record differs from what was loaded in
\* nothing but description, short_description and updatedAt, and differs
\* at all only when it was repaired in this run.  A run that ends before
\* the save leaves products.json alone.
C21_SameButTexts(new, old) ==
    [new EXCEPT !.description = old.description,
                !.short_description = old.short_description,
                !.updatedAt = old.updatedAt] = old

C21_Repaired ==
    {products_to_update[j] : j \in {k \in 1..Len(rep_calls) :
                                      ~C4_IsPlaceholder(k)}}

C21_Frame(records) ==
    LET flagged  == C15_Flagged
        repaired == C21_Repaired
    IN  /\ Len(records) = Len(catalog_before)
        /\ repaired \subseteq flagged
        /\ \A i \in 1..Len(records) :
              IF i \in repaired
              THEN C21_SameButTexts(records[i], catalog_before[i])
              ELSE records[i] = catalog_before[i]

C21_Loaded ==
    \/ rep_pc \in {"scan", "repair", "save", "report"}
    \/ rep_pc = "done" /\ rep_exit \in {"noflagged", "save", "saved"}

C21_OnlyRepairedTextsChange ==
    /\ C21_Loaded => C21_Frame(products)
    /\ catalog_writes = 1 =>
          (C21_Loaded /\ ~catalog_cut /\ catalog_file = products)
    /\ (rep_pc = "done"
          /\ rep_exit \in {"probe", "missing", "load", "noflagged"}) =>
          CatalogAsBefore

C21_Witness ==
    /\ rep_pc = "done"
    /\ rep_exit = "saved"
    /\ Len(catalog_before) = 2
    /\ products_to_update = <<2>>
    /\ catalog_before[1].product_name # catalog_before[2].product_name
    /\ catalog_file[1] = catalog_before[1]
    /\ catalog_file[2].description = "D1"
    /\ catalog_file[2].updatedAt = run
    /\ catalog_file[2].createdAt = catalog_before[2].createdAt
    /\ catalog_file[2].updatedAt # catalog_before[2].updatedAt

====
